---- MODULE Spec2Model ----
(***************************************************************************)
(* Model of the store-expense visualizer's ingestion core                  *)
(* (src/services/sheetService.ts) and of the orchestration around it       *)
(* (src/App.tsx).                                                          *)
(*                                                                         *)
(* Conventions                                                             *)
(*  - A JavaScript string is a sequence of one-character strings; a Thai   *)
(*    character, which the module's character set cannot hold, is the      *)
(*    token "U+xxxx" of its code point and counts as one character.        *)
(*  - A JavaScript number that can be NaN is a record [nan, v].            *)
(*  - A Date is a record [valid, day, min]: day is the number of days      *)
(*    since 1970-01-01 of the local calendar day and min the minute of     *)
(*    that day; valid = FALSE is the Invalid Date (time value NaN).        *)
(***************************************************************************)
EXTENDS Integers, Sequences, FiniteSets, TLC

VARIABLES
    env,                 \* the host: [legacy, west], see DateParse
    now,                 \* the host clock, minutes since 1970-01-01 00:00 local
    localStore,          \* localStorage['storeViz_sheetUrls']
    settingsLoaded,      \* the mount effect's loadSettings has run
    sheets,              \* App state: the configured sheets, a sequence of [url, name]
    transactions,        \* App state: the displayed records
    isLoading,           \* App state
    error,               \* App state: "null" or the notice shown
    isUsingRealData,     \* App state
    isFirebaseConnected, \* App state
    selectedSheetIndex,  \* App state: <<>> for null, <<i>> for the index i
    saves,               \* the saveSheetUrlsToFirebase calls made so far, in call order
    loads,               \* the loadData calls started so far, in start order
    probe                \* the call under study of the single-function specifications

appVars == <<localStore, settingsLoaded, sheets, transactions, isLoading, error,
             isUsingRealData, isFirebaseConnected, selectedSheetIndex, saves, loads>>

vars == <<env, now, appVars, probe>>

(***************************************************************************)
(* Strings                                                                 *)
(***************************************************************************)
DigitChars == <<"0", "1", "2", "3", "4", "5", "6", "7", "8", "9">>

IsDigit(c) == \E i \in 1..10 : DigitChars[i] = c

DigitVal(c) == (CHOOSE i \in 1..10 : DigitChars[i] = c) - 1

\* The characters String.prototype.trim and the regular expression \s remove.
IsSpace(c) == c \in {" ", "\t", "\n", "\r", "\f"}

\* s.trim(): without the white space it starts with and ends with
Trim(s) ==
    LET lead  == Cardinality({i \in 1..Len(s) : \A j \in 1..i : IsSpace(s[j])})
        trail == Cardinality({i \in 1..Len(s) : \A j \in i..Len(s) : IsSpace(s[j])})
    IN  IF lead = Len(s) THEN <<>> ELSE SubSeq(s, lead + 1, Len(s) - trail)

TrimStart(s) ==
    LET lead == Cardinality({i \in 1..Len(s) : \A j \in 1..i : IsSpace(s[j])})
    IN  SubSeq(s, lead + 1, Len(s))

\* s.startsWith(p) at offset i (1-based)
MatchAt(s, p, i) ==
    /\ i + Len(p) - 1 <= Len(s)
    /\ \A k \in 1..Len(p) : s[i + k - 1] = p[k]

\* s.includes(p)
Includes(s, p) == \E i \in 1..(Len(s) + 1) : MatchAt(s, p, i)

\* s.split(c) for a one-character separator c
RECURSIVE SplitAcc(_, _, _, _)
SplitAcc(s, c, cur, acc) ==
    IF s = <<>> THEN Append(acc, cur)
    ELSE IF Head(s) = c THEN SplitAcc(Tail(s), c, <<>>, Append(acc, cur))
    ELSE SplitAcc(Tail(s), c, Append(cur, Head(s)), acc)

Split(s, c) == SplitAcc(s, c, <<>>, <<>>)

\* s.replace(/[...]/g, '') : drop every character of the class
Strip(s, class) == SelectSeq(s, LAMBDA c : c \notin class)

\* The longest run of digits at the start of s, as a number and its length.
RECURSIVE DigitRun(_, _, _)
DigitRun(s, v, n) ==
    IF s # <<>> /\ IsDigit(Head(s))
    THEN DigitRun(Tail(s), 10 * v + DigitVal(Head(s)), n + 1)
    ELSE [v |-> v, n |-> n]

NaN == [nan |-> TRUE, v |-> 0]

Num(v) == [nan |-> FALSE, v |-> v]

IsNegative(s) == s # <<>> /\ Head(s) = "-"

\* s without the sign it may start with
Unsigned(s) == IF s # <<>> /\ Head(s) \in {"-", "+"} THEN Tail(s) ELSE s

\* parseInt(s, 10): leading white space, an optional sign, the digit prefix.
ParseInt(str) ==
    LET OfRun(neg, run) == IF run.n = 0 THEN NaN ELSE Num(IF neg THEN 0 - run.v ELSE run.v)
    IN  OfRun(IsNegative(TrimStart(str)), DigitRun(Unsigned(TrimStart(str)), 0, 0))

\* Number.prototype.toString of an integer
RECURSIVE NatToStr(_)
NatToStr(n) ==
    IF n < 10 THEN <<DigitChars[n + 1]>>
    ELSE NatToStr(n \div 10) \o <<DigitChars[(n % 10) + 1]>>

IntToStr(n) == IF n < 0 THEN <<"-">> \o NatToStr(0 - n) ELSE NatToStr(n)

\* s.padStart(2, '0')
PadStart2(s) == IF Len(s) < 2 THEN <<"0">> \o s ELSE s

(***************************************************************************)
(* parseCSV (sheetService.ts 6-48)                                         *)
(***************************************************************************)
SomeCell(row) == \E k \in 1..Len(row) : row[k] # <<>>

\* PushRow without the test of lines 28 and 42.
PushRowAlways(rows, row) == Append(rows, row)

PushRow(rows, row) == IF SomeCell(row) THEN Append(rows, row) ELSE rows

\* CsvStep without lines 17-19: a quote always toggles the flag.
CsvStepNoEscape(text, i, st) ==
    LET char == text[i]
    IN  IF st.skip THEN [st EXCEPT !.skip = FALSE]
        ELSE IF char = "\"" THEN [st EXCEPT !.q = ~@]
        ELSE IF char = "," /\ ~st.q
        THEN [st EXCEPT !.row = Append(@, Trim(st.val)), !.val = <<>>]
        ELSE IF char = "\n" /\ ~st.q
        THEN [st EXCEPT !.rows = PushRow(@, Append(st.row, Trim(st.val))),
                        !.row = <<>>, !.val = <<>>]
        ELSE IF char = "\r" THEN st
        ELSE [st EXCEPT !.val = Append(@, char)]

\* One iteration of the scan loop at index i (1-based) on the loop state
\* st = [rows, row, val, q, skip]; skip is the i++ of an escaped quote: the
\* next index is passed over.
CsvStep(text, i, st) ==
    LET char == text[i]
        nextIsQuote == i + 1 <= Len(text) /\ text[i + 1] = "\""
    IN  IF st.skip THEN [st EXCEPT !.skip = FALSE]
        ELSE IF char = "\""
        THEN IF st.q /\ nextIsQuote
             THEN [st EXCEPT !.val = Append(@, "\""), !.skip = TRUE]
             ELSE [st EXCEPT !.q = ~@]
        ELSE IF char = "," /\ ~st.q
        THEN [st EXCEPT !.row = Append(@, Trim(st.val)), !.val = <<>>]
        ELSE IF char = "\n" /\ ~st.q
        THEN [st EXCEPT !.rows = PushRow(@, Append(st.row, Trim(st.val))),
                        !.row = <<>>, !.val = <<>>]
        ELSE IF char = "\r" THEN st
        ELSE [st EXCEPT !.val = Append(@, char)]

\* The loop over the indices lo..hi in increasing order, from the state st.
\* The range is halved and st is evaluated before the range is entered, which
\* keeps the evaluation shallow.
RECURSIVE CsvLoop(_, _, _, _)
CsvLoop(text, lo, hi, st) ==
    IF st.skip \notin BOOLEAN \/ lo > hi THEN st
    ELSE IF lo = hi THEN CsvStep(text, lo, st)
    ELSE CsvLoop(text, ((lo + hi) \div 2) + 1, hi, CsvLoop(text, lo, (lo + hi) \div 2, st))

\* Lines 41-45 follow the loop: the last row, when the text does not end with
\* a line break.
parseCSV(text) ==
    LET AtEnd(st) ==
            IF st.val # <<>> \/ Len(st.row) > 0
            THEN PushRow(st.rows, Append(st.row, Trim(st.val)))
            ELSE st.rows
    IN  AtEnd(CsvLoop(text, 1, Len(text),
                      [rows |-> <<>>, row |-> <<>>, val |-> <<>>, q |-> FALSE, skip |-> FALSE]))

(***************************************************************************)
(* cleanAmount (sheetService.ts 163-168)                                   *)
(*                                                                         *)
(* A JavaScript number is [kind, neg, mant, exp]: kind is "finite",        *)
(* "infinite" or "nan"; a finite number is (-1)^neg * mant * 10^exp with   *)
(* mant free of trailing zeros (mant = 0 is zero).                         *)
(***************************************************************************)
BAHT == "U+0E3F"

Zero == [kind |-> "finite", neg |-> FALSE, mant |-> 0, exp |-> 0]

NotANumber == [kind |-> "nan", neg |-> FALSE, mant |-> 0, exp |-> 0]

Infinite(neg) == [kind |-> "infinite", neg |-> neg, mant |-> 0, exp |-> 0]

RECURSIVE Pow10(_)
Pow10(n) == IF n <= 0 THEN 1 ELSE 10 * Pow10(n - 1)

RECURSIVE NumDigits(_)
NumDigits(n) == IF n < 10 THEN 1 ELSE 1 + NumDigits(n \div 10)

\* The leading nine digits of m (m has at most nine digits), for comparisons.
Lead9(m) == m * Pow10(9 - NumDigits(m))

RECURSIVE Normalize(_, _, _)
Normalize(neg, mant, exp) ==
    IF mant = 0 THEN [kind |-> "finite", neg |-> neg, mant |-> 0, exp |-> 0]
    ELSE IF mant % 10 = 0 THEN Normalize(neg, mant \div 10, exp + 1)
    ELSE [kind |-> "finite", neg |-> neg, mant |-> mant, exp |-> exp]

\* The IEEE-754 double nearest to mant * 10^exp, as far as its kind goes:
\* beyond 1.7976931348623157e308 it is Infinity, at or below
\* 2.4703282292062327e-324 (half the least denormal) it is zero.
ToDouble(neg, mant, exp) ==
    LET Rounded(n, top) ==
            IF n.mant = 0 THEN n
            ELSE IF top > 309 \/ (top = 309 /\ Lead9(n.mant) > 179769313) THEN Infinite(n.neg)
            ELSE IF top < -323 \/ (top = -323 /\ Lead9(n.mant) <= 247032822)
                 THEN [kind |-> "finite", neg |-> n.neg, mant |-> 0, exp |-> 0]
            ELSE n
        OfNormal(n) == Rounded(n, NumDigits(n.mant) + n.exp)
    IN  OfNormal(Normalize(neg, mant, exp))

INFINITY == <<"I", "n", "f", "i", "n", "i", "t", "y">>

\* parseFloat(s): the longest prefix of the trimmed string that is a
\* StrDecimalLiteral; NaN when there is none.  ip and fp are the digit runs
\* before and after the point ("1." is a literal, "." alone is not), r what
\* follows the integer digits, rest what follows the fraction.
ParseFloat(str) ==
    LET ExponentValue(eneg, ep) == IF ep.n = 0 THEN 0 ELSE IF eneg THEN 0 - ep.v ELSE ep.v
        ExponentOf(rest) ==
            IF rest # <<>> /\ Head(rest) \in {"e", "E"}
            THEN ExponentValue(IsNegative(Tail(rest)), DigitRun(Unsigned(Tail(rest)), 0, 0))
            ELSE 0
        FloatOf(neg, ip, fp, rest) ==
            IF ip.n = 0 /\ fp.n = 0 THEN NotANumber
            ELSE ToDouble(neg, ip.v * Pow10(fp.n) + fp.v, ExponentOf(rest) - fp.n)
        AfterPoint(neg, ip, r, fp) ==
            FloatOf(neg, ip, fp, IF ip.n > 0 \/ fp.n > 0 THEN SubSeq(r, fp.n + 2, Len(r)) ELSE r)
        AfterInt(neg, ip, r) ==
            IF r # <<>> /\ Head(r) = "." THEN AfterPoint(neg, ip, r, DigitRun(Tail(r), 0, 0))
            ELSE FloatOf(neg, ip, [v |-> 0, n |-> 0], r)
        Body(neg, body, ip) ==
            IF MatchAt(body, INFINITY, 1) THEN Infinite(neg)
            ELSE AfterInt(neg, ip, SubSeq(body, ip.n + 1, Len(body)))
    IN  Body(IsNegative(TrimStart(str)), Unsigned(TrimStart(str)),
             DigitRun(Unsigned(TrimStart(str)), 0, 0))

cleanAmount(amtStr) ==
    LET OrZero(num) == IF num.kind = "nan" THEN Zero ELSE num
    IN  IF amtStr = <<>> THEN Zero
        ELSE OrZero(ParseFloat(Strip(Strip(amtStr, {BAHT, ",", " ", "\""}),
                                     {" ", "\t", "\n", "\r", "\f"})))

\* amount === 0 (true of -0 as well)
IsZero(a) == a.kind = "finite" /\ a.mant = 0

IsFinite(a) == a.kind = "finite"

(***************************************************************************)
(* Date (the host's Date object, as sheetService.ts uses it)               *)
(***************************************************************************)
InvalidDate == [valid |-> FALSE, day |-> 0, min |-> 0]

IsLeap(y) == (y % 4 = 0 /\ y % 100 # 0) \/ y % 400 = 0

DaysInMonth(y, m) ==
    IF m = 2 THEN (IF IsLeap(y) THEN 29 ELSE 28)
    ELSE IF m \in {4, 6, 9, 11} THEN 30 ELSE 31

\* Days since 1970-01-01 of the proleptic Gregorian date y-m-d, m in 1..12.
DaysFromCivil(y, m, d) ==
    LET yy  == IF m <= 2 THEN y - 1 ELSE y
        era == yy \div 400
        yoe == yy - era * 400
        mp  == IF m > 2 THEN m - 3 ELSE m + 9
        doy == (153 * mp + 2) \div 5 + d - 1
        doe == yoe * 365 + yoe \div 4 - yoe \div 100 + doy
    IN  era * 146097 + doe - 719468

\* The calendar date [y, m, d] of a day number; m in 1..12.  doe is the day
\* of its 400-year era, yoe the year of the era, doy the day of the year
\* counted from 1 March.
CivilFromDays(z) ==
    LET InYear(era, yoe, doy, mp) ==
            [y |-> yoe + era * 400 + (IF mp < 10 THEN 0 ELSE 1),
             m |-> IF mp < 10 THEN mp + 3 ELSE mp - 9,
             d |-> doy - (153 * mp + 2) \div 5 + 1]
        OfYearDay(era, yoe, doy) == InYear(era, yoe, doy, (5 * doy + 2) \div 153)
        InEra(era, doe, yoe) ==
            OfYearDay(era, yoe, doe - (365 * yoe + yoe \div 4 - yoe \div 100))
        OfEraDay(era, doe) ==
            InEra(era, doe, (doe - doe \div 1460 + doe \div 36524 - doe \div 146096) \div 365)
    IN  OfEraDay((z + 719468) \div 146097, (z + 719468) % 146097)

\* new Date(year, month, day, hour, minute) of numbers that may be NaN:
\* a year 0..99 means 1900+year, out-of-range fields roll over, and a time
\* value more than 100,000,000 days from the epoch is the Invalid Date.
NewDate(year, month, day, hour, minute) ==
    LET AtDay(dn, tm) ==
            IF dn > 100000000 \/ dn < -100000000 THEN InvalidDate
            ELSE [valid |-> TRUE, day |-> dn, min |-> tm % 1440]
        InMonth(ym, mn, tm) ==
            IF ym > 300000 \/ ym < -300000 THEN InvalidDate
            ELSE AtDay(DaysFromCivil(ym, mn + 1, 1) + day.v - 1 + (tm \div 1440), tm)
    IN  IF year.nan \/ month.nan \/ day.nan \/ hour.nan \/ minute.nan THEN InvalidDate
        ELSE InMonth((IF year.v >= 0 /\ year.v <= 99 THEN 1900 + year.v ELSE year.v)
                         + (month.v \div 12),
                     month.v % 12, hour.v * 60 + minute.v)

\* new Date(): the host clock
DateNow(nowv) == [valid |-> TRUE, day |-> nowv \div 1440, min |-> nowv % 1440]

getFullYear(d) == CivilFromDays(d.day).y

getMonth(d) == CivilFromDays(d.day).m - 1

getDate(d) == CivilFromDays(d.day).d

\* a.getTime() - b.getTime(), by its sign
TimeDiffSign(a, b) ==
    IF a.day # b.day THEN (IF a.day > b.day THEN 1 ELSE -1)
    ELSE IF a.min # b.min THEN (IF a.min > b.min THEN 1 ELSE -1)
    ELSE 0

\* dateObj.toISOString() of a valid date, as its fields; the caller sees the
\* RangeError of an invalid one.
toISOString(d) ==
    LET Fields(c) == [y |-> c.y, mo |-> c.m, d |-> c.d, hh |-> d.min \div 60, mm |-> d.min % 60]
    IN  Fields(CivilFromDays(d.day))

\* new Date(isoString) of a string toISOString produced
DateFromISO(iso) ==
    [valid |-> TRUE, day |-> DaysFromCivil(iso.y, iso.mo, iso.d), min |-> iso.hh * 60 + iso.mm]

\* formatToThaiDisplayDate writing getMonth() as it is, without the + 1.
formatMonthIndex(dateObj) ==
    IF ~dateObj.valid THEN <<>>
    ELSE PadStart2(IntToStr(getDate(dateObj))) \o <<"/">>
         \o PadStart2(IntToStr(getMonth(dateObj))) \o <<"/">>
         \o IntToStr(getFullYear(dateObj) + 543)

\* formatToThaiDisplayDate (sheetService.ts 51-58)
formatToThaiDisplayDate(dateObj) ==
    IF ~dateObj.valid THEN <<>>
    ELSE PadStart2(IntToStr(getDate(dateObj))) \o <<"/">>
         \o PadStart2(IntToStr(getMonth(dateObj) + 1)) \o <<"/">>
         \o IntToStr(getFullYear(dateObj) + 543)

(***************************************************************************)
(* extractDateFromText (sheetService.ts 61-85)                             *)
(***************************************************************************)
DateSeps == {"/", ".", "-"}

\* The number of digits at the start of s, at most cap.
\* The length of the digit prefix of s, up to cap
RunLen(s, cap) ==
    LET Capped(n) == IF n > cap THEN cap ELSE n
    IN  Capped(DigitRun(s, 0, 0).n)

From(s, i) == SubSeq(s, i, Len(s))

NoMatch == [ok |-> FALSE, g1 |-> <<>>, g2 |-> <<>>, g3 |-> <<>>]

\* /(\d{1,2})[\/.-](\d{1,2})[\/.-](\d{2,4})/ anchored at position i: the three
\* groups, of dl, ml and yl digits, or ok = FALSE.  Each group is greedy, and
\* giving a digit back never helps, since the character after a shortened
\* group is a digit, not a separator.
LabelMatchAt(s, i) ==
    LET Groups(dl, ml, yl) ==
            IF yl >= 2
            THEN [ok |-> TRUE,
                  g1 |-> SubSeq(s, i, i + dl - 1),
                  g2 |-> SubSeq(s, i + dl + 1, i + dl + ml),
                  g3 |-> SubSeq(s, i + dl + ml + 2, i + dl + ml + 1 + yl)]
            ELSE NoMatch
        YearAt(dl, ml) ==
            IF ml >= 1 /\ i + dl + 1 + ml <= Len(s) /\ s[i + dl + 1 + ml] \in DateSeps
            THEN Groups(dl, ml, RunLen(From(s, i + dl + ml + 2), 4))
            ELSE NoMatch
        MonthAt(dl) ==
            IF dl >= 1 /\ i + dl <= Len(s) /\ s[i + dl] \in DateSeps
            THEN YearAt(dl, RunLen(From(s, i + dl + 1), 2))
            ELSE NoMatch
    IN  MonthAt(RunLen(From(s, i), 2))

LeastOf(S) == CHOOSE i \in S : \A j \in S : i <= j

\* text.match(...): the leftmost match
LabelMatch(s) ==
    LET Among(hits) == IF hits = {} THEN NoMatch ELSE LabelMatchAt(s, LeastOf(hits))
    IN  Among({i \in 1..Len(s) : LabelMatchAt(s, i).ok})

\* year < 100 ? (year > 40 ? 2500 + year : 2000 + year) : year
PivotYear(year) ==
    IF year < 100 THEN (IF year > 40 THEN 2500 + year ELSE 2000 + year) ELSE year

\* The year left as written, without the conversion of lines 78-79 and 142-145.
EraKept(year) == year

\* if (year > 2400) year -= 543
EraToAD(year) == IF year > 2400 THEN year - 543 ELSE year

\* The result is [found, date]: found = FALSE is null.
extractDateFromText(text) ==
    LET Checked(d) ==
            IF ~d.valid THEN [found |-> FALSE, date |-> InvalidDate]
            ELSE [found |-> TRUE, date |-> d]
        OfMatch(match) ==
            IF ~match.ok THEN [found |-> FALSE, date |-> InvalidDate]
            ELSE Checked(NewDate(Num(EraToAD(PivotYear(ParseInt(match.g3).v))),
                                 Num(ParseInt(match.g2).v - 1),
                                 Num(ParseInt(match.g1).v), Num(0), Num(0)))
    IN  OfMatch(LabelMatch(text))

(***************************************************************************)
(* new Date(string): Date.parse.  Only the ISO 8601 forms are specified by *)
(* the language; what the host does with any other string is up to the     *)
(* host.  e.legacy tells a host with V8's fallback parser (A-B-C read as   *)
(* month-day-year unless A cannot be a day, two-digit years pivoting at    *)
(* 50, a day of 1..31 accepted for any month) from a host accepting the    *)
(* ISO forms alone; e.west tells a host west of Greenwich, where the UTC   *)
(* midnight of an ISO date is the evening of the previous local day.       *)
(* Modelled for strings made of digits and '-'; any other string is        *)
(* rejected by both hosts.                                                 *)
(***************************************************************************)
AllDigits(s) == s # <<>> /\ \A k \in 1..Len(s) : IsDigit(s[k])

UtcMidnight(e, y, m, d) ==
    IF e.west THEN [valid |-> TRUE, day |-> DaysFromCivil(y, m, 1) + d - 2, min |-> 1140]
    ELSE [valid |-> TRUE, day |-> DaysFromCivil(y, m, 1) + d - 1, min |-> 420]

LocalMidnight(y, m, d) ==
    [valid |-> TRUE, day |-> DaysFromCivil(y, m, 1) + d - 1, min |-> 0]

LegacyYear(y) ==
    IF y >= 0 /\ y <= 49 THEN y + 2000
    ELSE IF y >= 50 /\ y <= 99 THEN y + 1900 ELSE y

\* parts are the digit runs of the string, nums their values; Legacy is the
\* fallback parser on the numbers a, b, c of A-B-C (c = 1 for A-B).
DateParse(e, str) ==
    LET Legacy(a, b, c, ymd) ==
            IF (IF ymd THEN b ELSE a) \in 1..12 /\ (IF ymd THEN c ELSE b) \in 1..31
            THEN LocalMidnight(LegacyYear(IF ymd THEN a ELSE c),
                               IF ymd THEN b ELSE a, IF ymd THEN c ELSE b)
            ELSE InvalidDate
        OfNums(parts, nums, n) ==
            IF /\ Len(parts[1]) = 4 /\ Len(parts[2]) = 2
               /\ (n = 2 \/ Len(parts[3]) = 2)
               /\ nums[2] \in 1..12
               /\ (n = 3 => nums[3] \in 1..(IF e.legacy THEN 31
                                            ELSE DaysInMonth(nums[1], nums[2])))
            THEN UtcMidnight(e, nums[1], nums[2], IF n = 3 THEN nums[3] ELSE 1)
            ELSE IF ~e.legacy THEN InvalidDate
            ELSE Legacy(nums[1], nums[2], IF n = 3 THEN nums[3] ELSE 1, ~(nums[1] \in 1..31))
        OfParts(parts) ==
            IF ~(/\ Len(parts) \in {2, 3}
                 /\ \A k \in 1..Len(parts) : AllDigits(parts[k]) /\ Len(parts[k]) <= 6)
            THEN InvalidDate
            ELSE OfNums(parts, [k \in 1..Len(parts) |-> ParseInt(parts[k]).v], Len(parts))
    IN  OfParts(Split(str, "-"))

(***************************************************************************)
(* parseFlexibleDate (sheetService.ts 89-161)                              *)
(***************************************************************************)
\* The three fields [day, month, year] read from a ["d", "m", "y"] split
\* (lines 102-115 and 130-137).  Of a NaN yearPart neither comparison holds,
\* and year is NaN.
PartsToFields(parts) ==
    LET YearOf(yearPart) == IF yearPart.nan THEN NaN ELSE Num(PivotYear(yearPart.v))
        MonthOf(monthNum) == IF monthNum.nan THEN NaN ELSE Num(monthNum.v - 1)
    IN  [day   |-> ParseInt(parts[1]),
         month |-> MonthOf(ParseInt(parts[2])),
         year  |-> YearOf(ParseInt(parts[3]))]

\* Lines 94-96: the fields when no branch assigns them
DefaultFields(nowv) ==
    [day |-> Num(1), month |-> Num(0), year |-> Num(getFullYear(DateNow(nowv)))]

\* parseInt(x, 10) || 0
IntOrZero(s) ==
    LET OrZero(n) == IF n.nan THEN 0 ELSE n.v
    IN  OrZero(ParseInt(s))

parseFlexibleDate(e, nowv, dateStr, timeStr) ==
    LET \* parts.length === 3, lines 101 and 129
        SplitFields(parts) ==
            IF Len(parts) = 3 THEN PartsToFields(parts) ELSE DefaultFields(nowv)
        \* Lines 121-126: the fields of the date the host parsed
        ParsedFields(c) == [day |-> Num(c.d), month |-> Num(c.m - 1), year |-> Num(c.y)]
        \* Lines 118-139: d is new Date(cleanDate)
        DashFields(cleanDate, d) ==
            IF d.valid THEN ParsedFields(CivilFromDays(d.day))
            ELSE SplitFields(Split(cleanDate, "-"))
        FieldsOf(cleanDate) ==
            IF Includes(cleanDate, <<"/">>) THEN SplitFields(Split(cleanDate, "/"))
            ELSE IF Includes(cleanDate, <<"-">>)
                 THEN DashFields(cleanDate, DateParse(e, cleanDate))
            ELSE DefaultFields(nowv)
        \* Lines 148-154: the hour (k = 1) or minute (k = 2) of the time string
        TimePart(timeParts, k) == IF Len(timeParts) >= 2 THEN IntOrZero(timeParts[k]) ELSE 0
        \* Lines 142-156
        OfFields(f, timeParts) ==
            NewDate(IF f.year.nan THEN NaN ELSE Num(EraToAD(f.year.v)), f.month, f.day,
                    Num(TimePart(timeParts, 1)), Num(TimePart(timeParts, 2)))
    IN  IF dateStr = <<>> THEN DateNow(nowv)
        ELSE OfFields(FieldsOf(Trim(dateStr)), Split(Trim(timeStr), ":"))

(***************************************************************************)
(* String literals                                                         *)
(***************************************************************************)
\* The characters of a literal, one per element.
Chars(str) == [i \in 1..Len(str) |-> SubSeq(str, i, i)]

UpperCase == Chars("ABCDEFGHIJKLMNOPQRSTUVWXYZ")

LowerCase == Chars("abcdefghijklmnopqrstuvwxyz")

IsLetter(c) == \E i \in 1..26 : UpperCase[i] = c \/ LowerCase[i] = c

LowerChar(c) ==
    IF \E i \in 1..26 : UpperCase[i] = c
    THEN LowerCase[CHOOSE i \in 1..26 : UpperCase[i] = c]
    ELSE c

toLowerCase(s) == [i \in 1..Len(s) |-> LowerChar(s[i])]

(***************************************************************************)
(* extractSheetInfo (sheetService.ts 171-192) and the URL that             *)
(* fetchSheetData requests (199-228)                                       *)
(***************************************************************************)
\* The first position at which p occurs in s, 0 when it does not.
IndexOf(s, p) ==
    IF Includes(s, p) THEN LeastOf({i \in 1..(Len(s) + 1) : MatchAt(s, p, i)})
    ELSE 0

\* [a-zA-Z0-9-_]
IsIdChar(c) == IsLetter(c) \/ IsDigit(c) \/ c \in {"-", "_"}

\* The longest prefix of s made of such characters.
IdRun(s) ==
    LET UpTo(stops) == IF stops = {} THEN s ELSE SubSeq(s, 1, LeastOf(stops) - 1)
    IN  UpTo({i \in 1..Len(s) : ~IsIdChar(s[i])})

RECURSIVE DigitPrefix(_)
DigitPrefix(s) ==
    IF s # <<>> /\ IsDigit(Head(s)) THEN <<Head(s)>> \o DigitPrefix(Tail(s)) ELSE <<>>

\* cleanUrl.match(/[?&#]gid=([0-9]+)/): group 1 of the leftmost match, or <<>> (null)
GidOf(s) ==
    LET Among(hits) == IF hits = {} THEN <<>> ELSE DigitPrefix(From(s, 5 + LeastOf(hits)))
    IN  Among({i \in 1..Len(s) : /\ s[i] \in {"?", "&", "#"}
                                 /\ MatchAt(s, Chars("gid="), i + 1)
                                 /\ DigitPrefix(From(s, i + 5)) # <<>>})

\* cleanUrl.match(/\/d\/([a-zA-Z0-9-_]{15,})/): group 1 of the leftmost match, or <<>>
DocIdOf(s) ==
    LET Among(hits) == IF hits = {} THEN <<>> ELSE IdRun(From(s, 3 + LeastOf(hits)))
    IN  Among({i \in 1..Len(s) : /\ MatchAt(s, Chars("/d/"), i)
                                 /\ Len(IdRun(From(s, i + 3))) >= 15})

\* extractSheetInfo taking a reference without '/' of any length as an id.
extractSheetInfoAnyLength(urlOrId) ==
    LET SheetIdOf(cleanUrl, idMatch) ==
            IF idMatch # <<>> THEN idMatch
            ELSE IF ~Includes(cleanUrl, <<"/">>) THEN cleanUrl
            ELSE <<>>
        InfoOf(cleanUrl) ==
            IF Includes(cleanUrl, Chars("/d/e/"))
            THEN [sheetId |-> <<>>, gid |-> GidOf(cleanUrl), isPublished |-> TRUE,
                  cleanUrl |-> cleanUrl]
            ELSE [sheetId |-> SheetIdOf(cleanUrl, DocIdOf(cleanUrl)), gid |-> GidOf(cleanUrl),
                  isPublished |-> FALSE, cleanUrl |-> cleanUrl]
    IN  InfoOf(Trim(urlOrId))

\* sheetId and gid are <<>> where the code has null.
extractSheetInfo(urlOrId) ==
    LET \* Lines 186-189: the id of the match, else a reference that is itself an id
        SheetIdOf(cleanUrl, idMatch) ==
            IF idMatch # <<>> THEN idMatch
            ELSE IF ~Includes(cleanUrl, <<"/">>) /\ Len(cleanUrl) > 15 THEN cleanUrl
            ELSE <<>>
        InfoOf(cleanUrl) ==
            IF Includes(cleanUrl, Chars("/d/e/"))
            THEN [sheetId |-> <<>>, gid |-> GidOf(cleanUrl), isPublished |-> TRUE,
                  cleanUrl |-> cleanUrl]
            ELSE [sheetId |-> SheetIdOf(cleanUrl, DocIdOf(cleanUrl)), gid |-> GidOf(cleanUrl),
                  isPublished |-> FALSE, cleanUrl |-> cleanUrl]
    IN  InfoOf(Trim(urlOrId))

\* url += (url.includes('?') ? '&' : '?') + 'output=csv', unless it is there
WithOutputCsv(url) ==
    IF Includes(url, Chars("output=csv")) THEN url
    ELSE url \o (IF Includes(url, <<"?">>) THEN <<"&">> ELSE <<"?">>) \o Chars("output=csv")

\* The URL requested for a reference, or <<>> when the reference is skipped
\* (lines 199-228).
FetchUrl(urlOrId) ==
    LET \* Lines 204-215: the published link turned into its CSV form
        PublishedCsv(u) ==
            IF Includes(u, Chars("/pubhtml"))
            THEN SubSeq(u, 1, IndexOf(u, Chars("/pubhtml")) - 1) \o Chars("/pub?output=csv")
            ELSE WithOutputCsv(u)
        \* Lines 216-218
        WithGid(pub, gid) ==
            IF gid # <<>> /\ ~Includes(pub, Chars("gid=") \o gid)
            THEN pub \o Chars("&gid=") \o gid
            ELSE pub
        UrlOf(info) ==
            IF info.isPublished THEN WithGid(PublishedCsv(info.cleanUrl), info.gid)
            ELSE IF info.sheetId = <<>> THEN <<>>
            ELSE Chars("https://docs.google.com/spreadsheets/d/") \o info.sheetId
                 \o Chars("/export?format=csv")
                 \o (IF info.gid # <<>> THEN Chars("&gid=") \o info.gid ELSE <<>>)
    IN  UrlOf(extractSheetInfo(urlOrId))

(***************************************************************************)
(* Column roles (sheetService.ts 245-283).  Indices are 0-based as in the  *)
(* code; -1 is "not found".                                                *)
(***************************************************************************)
AmountKeywords ==
    { Chars("amount"), Chars("price"), Chars("cost"), Chars("expense"),
      <<"U+0E08", "U+0E33", "U+0E19", "U+0E27", "U+0E19">>,
      <<"U+0E23", "U+0E32", "U+0E04", "U+0E32">>,
      <<"U+0E22", "U+0E2D", "U+0E14">>,
      <<"U+0E08", "U+0E48", "U+0E32", "U+0E22">> }

DateKeywords ==
    { Chars("date"), Chars("time"), Chars("timestamp"),
      <<"U+0E27", "U+0E31", "U+0E19", "U+0E17", "U+0E35", "U+0E48">>,
      <<"U+0E27", ".", "U+0E14", ".", "U+0E1B">>,
      <<"U+0E27", "U+0E31", "U+0E19">>,
      <<"U+0E40", "U+0E27", "U+0E25", "U+0E32">> }

TimeKeywords == { Chars("time"), <<"U+0E40", "U+0E27", "U+0E25", "U+0E32">> }

NoteKeywords ==
    { Chars("note"), Chars("description"),
      <<"U+0E1A", "U+0E31", "U+0E19", "U+0E17", "U+0E36", "U+0E01">>,
      <<"U+0E23", "U+0E32", "U+0E22", "U+0E01", "U+0E32", "U+0E23">> }

ReceiverKeywords ==
    { Chars("receiver"), Chars("category"),
      <<"U+0E1C", "U+0E39", "U+0E49", "U+0E23", "U+0E31", "U+0E1A">>,
      <<"U+0E2B", "U+0E21", "U+0E27", "U+0E14">> }

\* The 0-based index of the least of the 1-based positions, -1 of none.
FirstIndex(hits) == IF hits = {} THEN -1 ELSE LeastOf(hits) - 1

\* headers.findIndex(h => h contains one of the keywords)
FindHeader(headers, keywords) ==
    FirstIndex({k \in 1..Len(headers) : \E w \in keywords : Includes(headers[k], w)})

\* Three digit groups of the given [min, max] lengths separated by '/' or '-',
\* starting at position i; the last group needs only its minimum.
ShapeAt(s, i, mn1, mx1, mn2, mx2, mn3) ==
    LET End(p2, l2) ==
            /\ l2 >= mn2
            /\ p2 + l2 <= Len(s) /\ s[p2 + l2] \in {"/", "-"}
            /\ RunLen(From(s, p2 + l2 + 1), mn3) >= mn3
        Mid(l1) ==
            /\ l1 >= mn1
            /\ i + l1 <= Len(s) /\ s[i + l1] \in {"/", "-"}
            /\ End(i + l1 + 1, RunLen(From(s, i + l1 + 1), mx2))
    IN  Mid(RunLen(From(s, i), mx1))

\* /^(\d{1,2}[/-]\d{1,2}[/-]\d{2,4})|(\d{4}[/-]\d{1,2}[/-]\d{1,2})/.test(val):
\* the first alternative is anchored, the second is not.
DatePatternTest(val) ==
    \/ ShapeAt(val, 1, 1, 2, 1, 2, 2)
    \/ \E i \in 1..Len(val) : ShapeAt(val, i, 4, 4, 1, 2, 1)

\* /^["']?[\d,.]+["']?$/.test(val)
NumPatternTest(val) ==
    LET IsCore(t) == t # <<>> /\ \A k \in 1..Len(t) : IsDigit(t[k]) \/ t[k] \in {",", "."}
        Unquoted(t) == IF t # <<>> /\ Head(t) \in {"\"", "'"} THEN Tail(t) ELSE t
        UnquotedEnd(t) ==
            IF t # <<>> /\ t[Len(t)] \in {"\"", "'"} THEN SubSeq(t, 1, Len(t) - 1) ELSE t
    IN  \/ IsCore(val)
        \/ IsCore(Unquoted(val))
        \/ IsCore(UnquotedEnd(val))
        \/ IsCore(UnquotedEnd(Unquoted(val)))

IsSniffedDate(val) == DatePatternTest(val) /\ (Includes(val, <<"/">>) \/ Includes(val, <<"-">>))

IsSniffedAmount(val) == NumPatternTest(val) /\ Len(val) > 0

\* The forEach with the last cell of each shape winning.
SniffDateLast(row) ==
    LET LastIndex(hits) == IF hits = {} THEN -1 ELSE (CHOOSE i \in hits : \A j \in hits : j <= i) - 1
    IN  LastIndex({k \in 1..Len(row) : IsSniffedDate(Trim(row[k]))})

\* The forEach over the first data row (lines 262-274): the first cell of each
\* shape wins, and only for a role the headers left unresolved.
SniffDate(row) == FirstIndex({k \in 1..Len(row) : IsSniffedDate(Trim(row[k]))})

SniffAmount(row) == FirstIndex({k \in 1..Len(row) : IsSniffedAmount(Trim(row[k]))})

\* An unresolved role sent to the first column instead of its default.
FallbackZero(idx, dflt) == IF idx = -1 THEN 0 ELSE idx

Fallback(idx, dflt) == IF idx = -1 THEN dflt ELSE idx

\* RoleMap without the tests dateIdx === -1 and amtIdx === -1 of lines 255,
\* 265 and 271: a cell of the first data row with the shape takes the role.
RoleMapSniffAlways(rows) ==
    LET Over(found, sniffed) == IF sniffed # -1 THEN sniffed ELSE found
        Sniffed(headers, amt0, date0, sniff) ==
            [amt      |-> Fallback(IF sniff THEN Over(amt0, SniffAmount(rows[2])) ELSE amt0, 3),
             date     |-> Fallback(IF sniff THEN Over(date0, SniffDate(rows[2])) ELSE date0, 4),
             time     |-> Fallback(FindHeader(headers, TimeKeywords), 5),
             note     |-> Fallback(FindHeader(headers, NoteKeywords), 6),
             receiver |-> Fallback(FindHeader(headers, ReceiverKeywords), 2)]
        OfHeaders(headers) ==
            Sniffed(headers, FindHeader(headers, AmountKeywords),
                    FindHeader(headers, DateKeywords), Len(rows) > 1)
    IN  OfHeaders([k \in 1..Len(rows[1]) |-> Trim(toLowerCase(rows[1][k]))])

\* Lines 245-283: amt0 and date0 are what the headers gave.
RoleMap(rows) ==
    LET Sniffed(headers, amt0, date0, sniff) ==
            [amt      |-> Fallback(IF sniff /\ amt0 = -1
                                   THEN SniffAmount(rows[2]) ELSE amt0, 3),
             date     |-> Fallback(IF sniff /\ date0 = -1
                                   THEN SniffDate(rows[2]) ELSE date0, 4),
             time     |-> Fallback(FindHeader(headers, TimeKeywords), 5),
             note     |-> Fallback(FindHeader(headers, NoteKeywords), 6),
             receiver |-> Fallback(FindHeader(headers, ReceiverKeywords), 2)]
        OfFound(headers, amt0, date0) ==
            Sniffed(headers, amt0, date0, (date0 = -1 \/ amt0 = -1) /\ Len(rows) > 1)
        OfHeaders(headers) ==
            OfFound(headers, FindHeader(headers, AmountKeywords),
                    FindHeader(headers, DateKeywords))
    IN  OfHeaders([k \in 1..Len(rows[1]) |-> Trim(toLowerCase(rows[1][k]))])

(***************************************************************************)
(* The row loop of fetchSheetData (sheetService.ts 285-345)                *)
(***************************************************************************)
\* row[idx] || ''
Cell(row, idx) == IF idx + 1 <= Len(row) THEN row[idx + 1] ELSE <<>>

UNSPECIFIED ==
    <<"U+0E44", "U+0E21", "U+0E48", "U+0E23", "U+0E30", "U+0E1A", "U+0E38", "U+0E23",
      "U+0E32", "U+0E22", "U+0E25", "U+0E30", "U+0E40", "U+0E2D", "U+0E35", "U+0E22",
      "U+0E14">>

OTHERS ==
    <<"U+0E2D", "U+0E37", "U+0E48", "U+0E19", "U+0E46", " ", "(", "O", "t", "h", "e",
      "r", "s", ")">>

\* The test of line 327 with the threshold included.
LooksLikeCategoryUpTo30(receiverStr) == receiverStr # <<>> /\ Len(receiverStr) <= 30

\* receiverStr && receiverStr.length < 30
LooksLikeCategory(receiverStr) == receiverStr # <<>> /\ Len(receiverStr) < 30

\* Description without the fallback of line 324.
DescriptionNoSentinel(receiverStr, noteStr) ==
    IF LooksLikeCategory(receiverStr) /\ noteStr # <<>> THEN noteStr
    ELSE IF noteStr # <<>>
         THEN (IF receiverStr # <<>> THEN receiverStr \o Chars(" - ") \o noteStr ELSE noteStr)
         ELSE receiverStr

\* lines 320-324 and 330
Description(receiverStr, noteStr) ==
    LET OrUnspecified(description) ==
            IF description = <<>> THEN UNSPECIFIED ELSE description
    IN  IF LooksLikeCategory(receiverStr) /\ noteStr # <<>> THEN noteStr
        ELSE OrUnspecified(IF noteStr # <<>>
                           THEN (IF receiverStr # <<>>
                                 THEN receiverStr \o Chars(" - ") \o noteStr
                                 ELSE noteStr)
                           ELSE receiverStr)

\* lines 326-329
Category(receiverStr, noteStr) ==
    IF LooksLikeCategory(receiverStr) THEN receiverStr
    ELSE IF noteStr # <<>> THEN noteStr ELSE OTHERS

\* An id made of the row index alone.
RowIdWithoutSource(sourceIndex, i) == Chars("sheet-row-") \o IntToStr(i)

\* `sheet-${sourceIndex}-row-${i}`
RowId(sourceIndex, i) ==
    Chars("sheet-") \o IntToStr(sourceIndex) \o Chars("-row-") \o IntToStr(i)

\* if (!dateStr && amount === 0) continue;
SkipRule(dateStr, amount) == dateStr = <<>> /\ IsZero(amount)

\* RowDate without the branch of lines 309-311.
RowDateFromCells(e, nowv, override, dateStr, timeStr) ==
    parseFlexibleDate(e, nowv, dateStr, timeStr)

\* lines 307-315
RowDate(e, nowv, override, dateStr, timeStr) ==
    IF override.found THEN override.date ELSE parseFlexibleDate(e, nowv, dateStr, timeStr)

\* One pass of the loop body for rows[i] (i is the code's 0-based index):
\* "skip" (either continue), "throw" (toISOString of an Invalid Date raises
\* RangeError) or "push" with the record.
RowStep(e, nowv, roles, override, row, i, sourceIndex, sheetName) ==
    LET \* row[amtIdx] || '0'
        AmountCell(idx) == IF Cell(row, idx) = <<>> THEN <<"0">> ELSE Cell(row, idx)
        Skipped == [kind |-> "skip", rec |-> <<>>]
        \* Lines 317-342
        Emit(dateObj, noteStr, receiverStr, amount) ==
            IF ~dateObj.valid THEN [kind |-> "throw", rec |-> <<>>]
            ELSE [kind |-> "push",
                  rec  |-> [id               |-> RowId(sourceIndex, i),
                            date             |-> toISOString(dateObj),
                            displayDate      |-> formatToThaiDisplayDate(dateObj),
                            category         |-> Category(receiverStr, noteStr),
                            amount           |-> amount,
                            description      |-> Description(receiverStr, noteStr),
                            sheetSourceIndex |-> sourceIndex,
                            sourceName       |-> sheetName]]
        \* Lines 302-315
        Checked(dateStr, timeStr, noteStr, receiverStr, amount) ==
            IF SkipRule(dateStr, amount) THEN Skipped
            ELSE Emit(RowDate(e, nowv, override, dateStr, timeStr),
                      noteStr, receiverStr, amount)
    IN  IF Len(row) < 2 THEN Skipped
        ELSE Checked(Cell(row, roles.date), Cell(row, roles.time), Cell(row, roles.note),
                     Cell(row, roles.receiver), cleanAmount(AmountCell(roles.amt)))

\* for (let i = startRow; i < rows.length; i++): [threw, out] from row i on.
\* After is the loop past row i, step being what the pass of row i did and
\* rest the outcome of the rows after it.
RECURSIVE RowLoop(_, _, _, _, _, _, _, _)
RowLoop(e, nowv, roles, override, rows, i, sourceIndex, sheetName) ==
    LET After(step, rest) ==
            IF step.kind = "throw" THEN [threw |-> TRUE, out |-> <<>>]
            ELSE IF rest.threw THEN rest
            ELSE IF step.kind = "push"
                 THEN [threw |-> FALSE, out |-> <<step.rec>> \o rest.out]
            ELSE rest
    IN  IF i >= Len(rows) THEN [threw |-> FALSE, out |-> <<>>]
        ELSE After(RowStep(e, nowv, roles, override, rows[i + 1], i, sourceIndex, sheetName),
                   RowLoop(e, nowv, roles, override, rows, i + 1, sourceIndex, sheetName))

\* A response of the network to fetch(url): the request fails ("reject"),
\* or answers with a status and a body.
Rejected == [kind |-> "reject", ok |-> FALSE, text |-> <<>>]

Answered(ok, text) == [kind |-> "answer", ok |-> ok, text |-> text]

\* ParseRows with the loop of line 292 starting at the first parsed row.
ParseRowsFromFirst(e, nowv, text, sourceIndex, sheetName) ==
    LET OfRows(rows) ==
            IF Len(rows) = 0 THEN [threw |-> FALSE, out |-> <<>>]
            ELSE RowLoop(e, nowv, RoleMap(rows), extractDateFromText(sheetName),
                         rows, 0, sourceIndex, sheetName)
    IN  OfRows(parseCSV(text))

\* Lines 240-345 on the text of a successful response: [threw, out].
ParseRows(e, nowv, text, sourceIndex, sheetName) ==
    LET OfRows(rows) ==
            IF Len(rows) = 0 THEN [threw |-> FALSE, out |-> <<>>]
            ELSE RowLoop(e, nowv, RoleMap(rows), extractDateFromText(sheetName),
                         rows, 1, sourceIndex, sheetName)
    IN  OfRows(parseCSV(text))

\* fetchSheetData without the try/catch of lines 230 and 347: a failed request
\* and an exception of the row loop reject the promise.
fetchSheetDataUncaught(e, nowv, resp, sourceIndex, sheetName) ==
    LET Thrown(loop) ==
            [rejected |-> loop.threw, recs |-> IF loop.threw THEN <<>> ELSE loop.out]
    IN  IF resp.kind = "reject" THEN [rejected |-> TRUE, recs |-> <<>>]
        ELSE IF ~resp.ok THEN [rejected |-> FALSE, recs |-> <<>>]
        ELSE Thrown(ParseRows(e, nowv, resp.text, sourceIndex, sheetName))

\* What the promise of fetchSheetData settles to once its fetch has settled
\* with resp (lines 230-350): [rejected, recs].  Every exception is caught at
\* line 347 (return []), so the promise never rejects.
fetchSheetDataSettle(e, nowv, resp, sourceIndex, sheetName) ==
    LET Caught(loop) ==
            [rejected |-> FALSE, recs |-> IF loop.threw THEN <<>> ELSE loop.out]
    IN  IF resp.kind = "reject" \/ ~resp.ok THEN [rejected |-> FALSE, recs |-> <<>>]
        ELSE Caught(ParseRows(e, nowv, resp.text, sourceIndex, sheetName))

(***************************************************************************)
(* generateMockData (utils/mockData.ts)                                    *)
(***************************************************************************)
parseThaiDate(nowv, thaiDate) ==
    LET \* buddhistYear - 543 and parseInt(...) - 1, NaN staying NaN
        Minus(n, k) == IF n.nan THEN NaN ELSE Num(n.v - k)
        OfParts(parts) ==
            IF Len(parts) # 3 THEN toISOString(DateNow(nowv))
            ELSE toISOString(NewDate(Minus(ParseInt(parts[3]), 543),
                                     Minus(ParseInt(parts[2]), 1),
                                     ParseInt(parts[1]), Num(0), Num(0)))
    IN  OfParts(Split(thaiDate, "/"))

rawData ==
    << [date |-> Chars("09/01/2569"), amt |-> 5400,
        cat |-> <<"U+0E27", "U+0E31", "U+0E15", "U+0E16", "U+0E38", "U+0E14", "U+0E34",
                  "U+0E1A", " ", "(", "R", "a", "w", " ", "M", "a", "t", "e", "r",
                  "i", "a", "l", "s", ")">>,
        desc |-> <<"U+0E0B", "U+0E37", "U+0E49", "U+0E2D", "U+0E1C", "U+0E31", "U+0E01",
                   "U+0E41", "U+0E25", "U+0E30", "U+0E40", "U+0E19", "U+0E37", "U+0E49",
                   "U+0E2D", "U+0E2A", "U+0E31", "U+0E15", "U+0E27", "U+0E4C", "U+0E15",
                   "U+0E25", "U+0E32", "U+0E14", "U+0E40", "U+0E0A", "U+0E49", "U+0E32">>],
       [date |-> Chars("09/01/2569"), amt |-> 1200,
        cat |-> <<"U+0E04", "U+0E48", "U+0E32", "U+0E41", "U+0E23", "U+0E07", " ",
                  "(", "W", "a", "g", "e", "s", ")">>,
        desc |-> <<"U+0E04", "U+0E48", "U+0E32", "U+0E41", "U+0E23", "U+0E07", "U+0E1E",
                   "U+0E19", "U+0E31", "U+0E01", "U+0E07", "U+0E32", "U+0E19", "U+0E1E",
                   "U+0E32", "U+0E23", "U+0E4C", "U+0E17", "U+0E44", "U+0E17", "U+0E21",
                   "U+0E4C">>],
       [date |-> Chars("09/01/2569"), amt |-> 850,
        cat |-> <<"U+0E1A", "U+0E23", "U+0E23", "U+0E08", "U+0E38", "U+0E20", "U+0E31",
                  "U+0E13", "U+0E11", "U+0E4C", " ", "(", "P", "a", "c", "k", "a",
                  "g", "i", "n", "g", ")">>,
        desc |-> <<"U+0E16", "U+0E38", "U+0E07", "U+0E1E", "U+0E25", "U+0E32", "U+0E2A",
                   "U+0E15", "U+0E34", "U+0E01", "U+0E41", "U+0E25", "U+0E30", "U+0E01",
                   "U+0E25", "U+0E48", "U+0E2D", "U+0E07", "U+0E02", "U+0E49", "U+0E32",
                   "U+0E27">>],
       [date |-> Chars("08/01/2569"), amt |-> 4200,
        cat |-> <<"U+0E27", "U+0E31", "U+0E15", "U+0E16", "U+0E38", "U+0E14", "U+0E34",
                  "U+0E1A", " ", "(", "R", "a", "w", " ", "M", "a", "t", "e", "r",
                  "i", "a", "l", "s", ")">>,
        desc |-> <<"U+0E0B", "U+0E37", "U+0E49", "U+0E2D", "U+0E02", "U+0E2D", "U+0E07",
                   "U+0E2A", "U+0E14", "U+0E40", "U+0E1E", "U+0E34", "U+0E48", "U+0E21">>],
       [date |-> Chars("08/01/2569"), amt |-> 3500,
        cat |-> <<"U+0E2A", "U+0E32", "U+0E18", "U+0E32", "U+0E23", "U+0E13", "U+0E39",
                  "U+0E1B", "U+0E42", "U+0E20", "U+0E04", " ", "(", "U", "t", "i",
                  "l", "i", "t", "i", "e", "s", ")">>,
        desc |-> <<"U+0E04", "U+0E48", "U+0E32", "U+0E41", "U+0E01", "U+0E4A", "U+0E2A",
                   "U+0E2B", "U+0E38", "U+0E07", "U+0E15", "U+0E49", "U+0E21">>],
       [date |-> Chars("07/01/2569"), amt |-> 6100,
        cat |-> <<"U+0E27", "U+0E31", "U+0E15", "U+0E16", "U+0E38", "U+0E14", "U+0E34",
                  "U+0E1A", " ", "(", "R", "a", "w", " ", "M", "a", "t", "e", "r",
                  "i", "a", "l", "s", ")">>,
        desc |-> <<"U+0E2A", "U+0E15", "U+0E47", "U+0E2D", "U+0E01", "U+0E02", "U+0E2D",
                   "U+0E07", "U+0E41", "U+0E2B", "U+0E49", "U+0E07", "U+0E1B", "U+0E23",
                   "U+0E30", "U+0E08", "U+0E33", "U+0E2A", "U+0E31", "U+0E1B", "U+0E14",
                   "U+0E32", "U+0E2B", "U+0E4C">>],
       [date |-> Chars("07/01/2569"), amt |-> 300,
        cat |-> <<"U+0E04", "U+0E48", "U+0E32", "U+0E02", "U+0E19", "U+0E2A", "U+0E48",
                  "U+0E07", " ", "(", "L", "o", "g", "i", "s", "t", "i", "c", "s",
                  ")">>,
        desc |-> <<"U+0E04", "U+0E48", "U+0E32", "U+0E2A", "U+0E48", "U+0E07", " ",
                   "G", "r", "a", "b", "E", "x", "p", "r", "e", "s", "s">>],
       [date |-> Chars("07/01/2569"), amt |-> 1200,
        cat |-> <<"U+0E04", "U+0E48", "U+0E32", "U+0E41", "U+0E23", "U+0E07", " ",
                  "(", "W", "a", "g", "e", "s", ")">>,
        desc |-> <<"U+0E04", "U+0E48", "U+0E32", "U+0E41", "U+0E23", "U+0E07", "U+0E1E",
                   "U+0E19", "U+0E31", "U+0E01", "U+0E07", "U+0E32", "U+0E19", "U+0E1E",
                   "U+0E32", "U+0E23", "U+0E4C", "U+0E17", "U+0E44", "U+0E17", "U+0E21",
                   "U+0E4C">>],
       [date |-> Chars("06/01/2569"), amt |-> 1500,
        cat |-> <<"U+0E0B", "U+0E48", "U+0E2D", "U+0E21", "U+0E1A", "U+0E33", "U+0E23",
                  "U+0E38", "U+0E07", " ", "(", "M", "a", "i", "n", "t", "e", "n",
                  "a", "n", "c", "e", ")">>,
        desc |-> <<"U+0E0B", "U+0E48", "U+0E2D", "U+0E21", "U+0E17", "U+0E48", "U+0E2D",
                   "U+0E19", "U+0E49", "U+0E33", "U+0E0B", "U+0E34", "U+0E07", "U+0E04",
                   "U+0E4C", "U+0E25", "U+0E49", "U+0E32", "U+0E07", "U+0E08", "U+0E32",
                   "U+0E19">>],
       [date |-> Chars("06/01/2569"), amt |-> 2200,
        cat |-> <<"U+0E27", "U+0E31", "U+0E15", "U+0E16", "U+0E38", "U+0E14", "U+0E34",
                  "U+0E1A", " ", "(", "R", "a", "w", " ", "M", "a", "t", "e", "r",
                  "i", "a", "l", "s", ")">>,
        desc |-> <<"U+0E0B", "U+0E37", "U+0E49", "U+0E2D", "U+0E44", "U+0E02", "U+0E48",
                   "U+0E44", "U+0E01", "U+0E48", "U+0E41", "U+0E25", "U+0E30", "U+0E02",
                   "U+0E49", "U+0E32", "U+0E27", "U+0E2A", "U+0E32", "U+0E23">>],
       [date |-> Chars("05/01/2569"), amt |-> 4800,
        cat |-> <<"U+0E27", "U+0E31", "U+0E15", "U+0E16", "U+0E38", "U+0E14", "U+0E34",
                  "U+0E1A", " ", "(", "R", "a", "w", " ", "M", "a", "t", "e", "r",
                  "i", "a", "l", "s", ")">>,
        desc |-> <<"U+0E0B", "U+0E37", "U+0E49", "U+0E2D", "U+0E1C", "U+0E31", "U+0E01",
                   "U+0E2A", "U+0E14">>],
       [date |-> Chars("05/01/2569"), amt |-> 1000,
        cat |-> <<"U+0E01", "U+0E32", "U+0E23", "U+0E15", "U+0E25", "U+0E32", "U+0E14",
                  " ", "(", "M", "a", "r", "k", "e", "t", "i", "n", "g", ")">>,
        desc |-> <<"U+0E22", "U+0E34", "U+0E07", "U+0E42", "U+0E06", "U+0E29", "U+0E13",
                   "U+0E32", " ", "F", "a", "c", "e", "b", "o", "o", "k">>],
       [date |-> Chars("04/01/2569"), amt |-> 15000,
        cat |-> <<"U+0E04", "U+0E48", "U+0E32", "U+0E40", "U+0E0A", "U+0E48", "U+0E32",
                  " ", "(", "R", "e", "n", "t", ")">>,
        desc |-> <<"U+0E04", "U+0E48", "U+0E32", "U+0E40", "U+0E0A", "U+0E48", "U+0E32",
                   "U+0E17", "U+0E35", "U+0E48", "U+0E1B", "U+0E23", "U+0E30", "U+0E08",
                   "U+0E33", "U+0E40", "U+0E14", "U+0E37", "U+0E2D", "U+0E19">>],
       [date |-> Chars("04/01/2569"), amt |-> 500,
        cat |-> <<"U+0E40", "U+0E1A", "U+0E47", "U+0E14", "U+0E40", "U+0E15", "U+0E25",
                  "U+0E47", "U+0E14", " ", "(", "M", "i", "s", "c", ")">>,
        desc |-> <<"U+0E2D", "U+0E38", "U+0E1B", "U+0E01", "U+0E23", "U+0E13", "U+0E4C",
                   "U+0E17", "U+0E33", "U+0E04", "U+0E27", "U+0E32", "U+0E21", "U+0E2A",
                   "U+0E30", "U+0E2D", "U+0E32", "U+0E14">>] >>

\* Mock records carry no sheetSourceIndex and no sourceName (undefined): -1
\* and the empty string stand for the missing fields.
generateMockData(nowv) ==
    [k \in 1..Len(rawData) |->
        [id               |-> Chars("tx-") \o IntToStr(k - 1),
         date             |-> parseThaiDate(nowv, rawData[k].date),
         displayDate      |-> rawData[k].date,
         category         |-> rawData[k].cat,
         amount           |-> Normalize(FALSE, rawData[k].amt, 0),
         description      |-> rawData[k].desc,
         sheetSourceIndex |-> -1,
         sourceName       |-> <<>>]]

(***************************************************************************)
(* App (App.tsx)                                                           *)
(***************************************************************************)
DEFAULT_URL ==
    Chars("https://docs.google.com/spreadsheets/d/1ZJ01yx27FMzBDKdXAF3e1Gy9s6HokAC4FsO6BESzi_w/edit#gid=0")

DEFAULT_NAME ==
    <<"U+0E02", "U+0E49", "U+0E2D", "U+0E21", "U+0E39", "U+0E25", "U+0E15", "U+0E31",
      "U+0E27", "U+0E2D", "U+0E22", "U+0E48", "U+0E32", "U+0E07", " ", "(", "M", "a",
      "i", "n", ")">>

\* useState<SheetConfig[]>([...]) (lines 40-42)
InitialSheets == <<[url |-> DEFAULT_URL, name |-> DEFAULT_NAME]>>

\* The two notices loadData sets (lines 139 and 145).
NOTICE_EMPTY == "connected but no data found in the given links (showing sample data)"

NOTICE_FAILED == "error while fetching data (showing sample data)"

\* Stored settings, remote or local, are [kind, list]: "absent" (null),
\* "invalid" (not JSON), "other" (a value that is no array), "strings" (the old
\* format, an array of URLs) or "configs" (an array of [url, name]).
Stored(kind, list) == [kind |-> kind, list |-> list]

\* normalizeData (lines 48-61)
normalizeData(data) ==
    IF data.kind \notin {"strings", "configs"} THEN <<>>
    ELSE IF Len(data.list) = 0 THEN <<>>
    ELSE IF data.kind = "strings"
         THEN [k \in 1..Len(data.list) |->
                  [url |-> data.list[k], name |-> Chars("Sheet ") \o IntToStr(k)]]
    ELSE data.list

RECURSIVE Flat(_)
Flat(results) == IF results = <<>> THEN <<>> ELSE Head(results) \o Flat(Tail(results))

\* The comparator with its operands exchanged.
CompareAsc(a, b) == TimeDiffSign(DateFromISO(a.date), DateFromISO(b.date))

\* The comparator of line 132: new Date(b.date).getTime() - new Date(a.date).getTime()
CompareDesc(a, b) == TimeDiffSign(DateFromISO(b.date), DateFromISO(a.date))

\* Array.prototype.sort is stable: insert each element after the elements
\* that do not compare greater than it.
RECURSIVE InsertSorted(_, _)
InsertSorted(sorted, x) ==
    IF sorted = <<>> THEN <<x>>
    ELSE IF CompareDesc(Head(sorted), x) > 0 THEN <<x>> \o sorted
    ELSE <<Head(sorted)>> \o InsertSorted(Tail(sorted), x)

RECURSIVE SortByDateDesc(_)
SortByDateDesc(list) ==
    IF list = <<>> THEN <<>>
    ELSE InsertSorted(SortByDateDesc(SubSeq(list, 1, Len(list) - 1)), list[Len(list)])

\* sheetsToFetch.filter(s => s.url.trim() !== '')
ValidSheets(sheetsToFetch) == SelectSeq(sheetsToFetch, LAMBDA sh : Trim(sh.url) # <<>>)

\* One promise of the Promise.all of line 125: its state, what the network
\* answered ("none" while pending or when no request was made, "failed" for
\* a failed request or a non-success status, "ok"), and what it settled to.
Pending == [state |-> "pending", net |-> "none", rejected |-> FALSE, recs |-> <<>>]

Settled(net, r) == [state |-> "settled", net |-> net, rejected |-> r.rejected, recs |-> r.recs]

NetKind(resp) == IF resp.kind = "reject" \/ ~resp.ok THEN "failed" ELSE "ok"

AllSettled(res) == \A k \in 1..Len(res) : res[k].state = "settled"

\* The rest of loadData once Promise.all has settled (lines 125-148), as the
\* values it sets: a rejection takes the catch branch.
Finish(nowv, res) ==
    LET \* Lines 128-141: combinedData is results.flat()
        OfData(combinedData) ==
            IF Len(combinedData) > 0
            THEN [outcome |-> "real", transactions |-> SortByDateDesc(combinedData),
                  isUsingRealData |-> TRUE, error |-> "keep"]
            ELSE [outcome |-> "empty", transactions |-> generateMockData(nowv),
                  isUsingRealData |-> FALSE, error |-> NOTICE_EMPTY]
    IN  IF \E k \in 1..Len(res) : res[k].rejected
        THEN [outcome |-> "failed", transactions |-> generateMockData(nowv),
              isUsingRealData |-> FALSE, error |-> NOTICE_FAILED]
        ELSE OfData(Flat([k \in 1..Len(res) |-> res[k].recs]))

\* SetFinished adding the records to the ones on display.
SetFinishedMerging(loadsNow, l, res, errorBefore, f) ==
    /\ loads' = [loadsNow EXCEPT ![l] = [@ EXCEPT !.res = res, !.done = TRUE,
                                                  !.outcome = f.outcome]]
    /\ transactions' = transactions \o f.transactions
    /\ isUsingRealData' = f.isUsingRealData
    /\ error' = IF f.error = "keep" THEN errorBefore ELSE f.error
    /\ isLoading' = FALSE

\* The setters of lines 134-147 run with the values f; call l of the calls
\* loadsNow is over.
SetFinished(loadsNow, l, res, errorBefore, f) ==
    /\ loads' = [loadsNow EXCEPT ![l] = [@ EXCEPT !.res = res, !.done = TRUE,
                                                  !.outcome = f.outcome]]
    /\ transactions' = f.transactions
    /\ isUsingRealData' = f.isUsingRealData
    /\ error' = IF f.error = "keep" THEN errorBefore ELSE f.error
    /\ isLoading' = FALSE

\* A loadData call leaves its await.
ApplyFinish(l, res, errorBefore) == SetFinished(loads, l, res, errorBefore, Finish(now, res))

\* loadData(sheetsToFetch) (lines 107-149) up to its await.
loadData(sheetsToFetch) ==
    LET NewLoad(validSheets, res) ==
            [src |-> validSheets, res |-> res, done |-> FALSE, outcome |-> "pending"]
        \* validSheets.map(... fetchSheetData ...): a reference that
        \* extractSheetInfo cannot resolve settles at once with []
        \* (sheetService.ts 220-223).
        StartFetches(validSheets) ==
            [k \in 1..Len(validSheets) |->
                IF FetchUrl(validSheets[k].url) = <<>>
                THEN Settled("none", [rejected |-> FALSE, recs |-> <<>>])
                ELSE Pending]
        \* await Promise.all(promises): when no fetch is left pending the call
        \* runs on to its end in the same turn.
        Await(validSheets, res) ==
            IF AllSettled(res)
            THEN SetFinished(Append(loads, NewLoad(validSheets, res)), Len(loads) + 1, res,
                             "null", Finish(now, res))
            ELSE /\ loads' = Append(loads, NewLoad(validSheets, res))
                 /\ isLoading' = TRUE
                 /\ error' = "null"
                 /\ UNCHANGED <<transactions, isUsingRealData>>
        OfValid(validSheets) ==
            IF Len(validSheets) = 0
            THEN /\ transactions' = generateMockData(now)
                 /\ isUsingRealData' = FALSE
                 /\ isLoading' = FALSE
                 /\ error' = "null"
                 /\ loads' = Append(loads, [src |-> <<>>, res |-> <<>>, done |-> TRUE,
                                            outcome |-> "placeholder"])
            ELSE Await(validSheets, StartFetches(validSheets))
    IN  OfValid(ValidSheets(sheetsToFetch))

(***************************************************************************)
(* Bounds and inputs                                                       *)
(***************************************************************************)
MaxLoads == 2       \* loadData calls in one run

MaxRows == 2        \* data rows in the payload of the single-call specification

MaxAmountLen == 3   \* characters in an amount cell drawn from the alphabet

Envs == [legacy : BOOLEAN, west : BOOLEAN]

\* 15 January 2026, 10:00
NowStart == DaysFromCivil(2026, 1, 15) * 1440 + 600

NoProbe == [op |-> "none", arg |-> <<>>, done |-> FALSE, ret |-> <<>>]

\* A cell as a spreadsheet export writes it: quoted, with quotes doubled, when
\* it holds a comma or a quote.
DoubleQuotes(s) ==
    LET n(k) == Cardinality({j \in 1..k : s[j] = "\""})
    IN  [i \in 1..(Len(s) + n(Len(s))) |->
            LET k == CHOOSE k \in 1..Len(s) : k + n(k - 1) <= i /\ i <= k + n(k)
            IN  s[k]]

CsvCell(s) ==
    IF \E k \in 1..Len(s) : s[k] \in {",", "\""}
    THEN <<"\"">> \o DoubleQuotes(s) \o <<"\"">>
    ELSE s

RECURSIVE CsvLine(_)
CsvLine(cells) ==
    IF cells = <<>> THEN <<>>
    ELSE IF Len(cells) = 1 THEN CsvCell(cells[1])
    ELSE CsvCell(Head(cells)) \o <<",">> \o CsvLine(Tail(cells))

RECURSIVE CsvText(_)
CsvText(rows) ==
    IF rows = <<>> THEN <<>> ELSE CsvLine(Head(rows)) \o <<"\n">> \o CsvText(Tail(rows))

\* Sheet layouts: "named", whose header names every role; "plain", whose
\* header names none, laid out in the default columns (receiver 2, amount 3,
\* date 4, time 5, note 6); "brief", a date and an amount column alone.
Layouts == {"named", "plain"}

HeaderRow(layout) ==
    IF layout = "brief" THEN <<Chars("Date"), Chars("Amount")>>
    ELSE IF layout = "named"
    THEN <<Chars("Date"), Chars("Time"), Chars("Receiver"), Chars("Amount"), Chars("Note")>>
    ELSE <<Chars("A"), Chars("B"), Chars("C"), Chars("D"), Chars("E"), Chars("F"), Chars("G")>>

\* The cells of a data row r = [date, time, receiver, amount, note, short].
DataRow(layout, r) ==
    IF r.short THEN <<Chars("x")>>
    ELSE IF layout = "brief" THEN <<r.date, r.amount>>
    ELSE IF layout = "named" THEN <<r.date, r.time, r.receiver, r.amount, r.note>>
    ELSE <<Chars("x"), Chars("y"), r.receiver, r.amount, r.date, r.time, r.note>>

Payload(layout, rs) ==
    CsvText(<<HeaderRow(layout)>> \o [k \in 1..Len(rs) |-> DataRow(layout, rs[k])])

LongReceiver == Chars("Green Valley Wholesale Co. Ltd")

RowOf(date, time, receiver, amount, note) ==
    [date |-> date, time |-> time, receiver |-> receiver, amount |-> amount,
     note |-> note, short |-> FALSE]

WellFormedDates == {Chars("09/01/2569"), Chars("10/01/2569")}

\* Rows of the single-call specification: every shape of date cell against
\* an empty and a non-zero amount cell, every shape of receiver against every
\* shape of note, and a row of one cell.
ProbeRows ==
    { RowOf(d, <<>>, Chars("Food"), a, Chars("lunch")) :
        d \in {<<>>, Chars("09/01/2569"), Chars("a/b/c"), Chars("31/04/2026")},
        a \in {<<>>, Chars("1,250.50")} }
    \cup
    { RowOf(Chars("10/01/2569"), Chars("10:30"), r, Chars("150"), n) :
        r \in {<<>>, Chars("Food"), LongReceiver}, n \in {<<>>, Chars("lunch")} }
    \cup
    { [RowOf(<<>>, <<>>, <<>>, <<>>, <<>>) EXCEPT !.short = TRUE] }

SeqsUpTo(S, n) == UNION {[1..k -> S] : k \in 0..n}

LabelPlain == Chars("Main")

LabelDated == Chars("Sales 25/12/2568")

LabelDotted == Chars("25.12.68")

(***************************************************************************)
(* One call of fetchSheetData: the response, the source index and the      *)
(* sheet name are drawn in Init, the call settles in CallFetchSheetData.   *)
(***************************************************************************)
AppInit ==
    /\ settingsLoaded = FALSE
    /\ sheets = InitialSheets
    /\ transactions = <<>>
    /\ isLoading = FALSE
    /\ error = "null"
    /\ isUsingRealData = FALSE
    /\ isFirebaseConnected = FALSE
    /\ selectedSheetIndex = <<>>
    /\ saves = <<>>
    /\ loads = <<>>

FetchSources ==
    { [index |-> 0, name |-> LabelPlain], [index |-> 1, name |-> LabelDated],
      [index |-> 2, name |-> LabelDotted] }

FetchProbes ==
    { [sourceIndex |-> src.index, sheetName |-> src.name, layout |-> ly, rows |-> rs,
       resp |-> Answered(TRUE, Payload(ly, rs))] :
        src \in FetchSources, ly \in Layouts, rs \in SeqsUpTo(ProbeRows, MaxRows) }
    \cup
    { [sourceIndex |-> 0, sheetName |-> LabelPlain, layout |-> "named", rows |-> <<>>,
       resp |-> r] : r \in {Rejected, Answered(FALSE, <<>>), Answered(TRUE, <<>>)} }

InitFetch ==
    /\ env \in Envs
    /\ now = NowStart
    /\ localStore = Stored("absent", <<>>)
    /\ AppInit
    /\ probe \in {[op |-> "fetchSheetData", arg |-> a, done |-> FALSE, ret |-> <<>>] :
                    a \in FetchProbes}

CallFetchSheetData ==
    /\ probe.op = "fetchSheetData" /\ ~probe.done
    /\ probe' = [probe EXCEPT
                   !.done = TRUE,
                   !.ret = fetchSheetDataSettle(env, now, probe.arg.resp,
                                                probe.arg.sourceIndex, probe.arg.sheetName)]
    /\ UNCHANGED <<env, now, appVars>>

NextFetch == CallFetchSheetData

SpecFetch == InitFetch /\ [][NextFetch]_vars

FetchDone == probe.op = "fetchSheetData" /\ probe.done

FetchedOk == FetchDone /\ probe.arg.resp.kind = "answer" /\ probe.arg.resp.ok

\* The record emitted for data row k (row k of the payload, the header being row 0).
Emitted(k) ==
    \E j \in 1..Len(probe.ret.recs) :
        probe.ret.recs[j].id = RowId(probe.arg.sourceIndex, k)

RecordOf(k) ==
    probe.ret.recs[CHOOSE j \in 1..Len(probe.ret.recs) :
                       probe.ret.recs[j].id = RowId(probe.arg.sourceIndex, k)]

TripsSkipRule(r) ==
    r.date = <<>> /\ IsZero(cleanAmount(IF r.amount = <<>> THEN <<"0">> ELSE r.amount))

\* C1: a malformed row never aborts the batch: after a successful fetch every
\* row of at least two cells that passes the skip rule, malformed or not, is
\* in the returned sequence.
C1_MalformedRowNeverAborts ==
    FetchedOk =>
        \A k \in 1..Len(probe.arg.rows) :
            (~probe.arg.rows[k].short /\ ~TripsSkipRule(probe.arg.rows[k])) => Emitted(k)

\* The date fields a row's own cells resolve to.
OwnDate(r) ==
    IF r.date = <<>> THEN toISOString(DateNow(now))
    ELSE IF r.date = Chars("09/01/2569") THEN [y |-> 2026, mo |-> 1, d |-> 9, hh |-> 0, mm |-> 0]
    ELSE IF r.date = Chars("10/01/2569") THEN [y |-> 2026, mo |-> 1, d |-> 10, hh |-> 10, mm |-> 30]
    ELSE [y |-> 2026, mo |-> 5, d |-> 1, hh |-> 0, mm |-> 0]

\* C5: under a label holding a date ("Sales 25/12/2568", "25.12.68") every
\* emitted record is dated 25 December 2025, midnight, whatever its own cells
\* say; under a label holding none every emitted record is dated by its own
\* cells.
C5_SheetLabelOverride ==
    FetchDone =>
        \A k \in 1..Len(probe.arg.rows) :
            Emitted(k) =>
                RecordOf(k).date =
                    IF probe.arg.sheetName \in {LabelDated, LabelDotted}
                    THEN [y |-> 2025, mo |-> 12, d |-> 25, hh |-> 0, mm |-> 0]
                    ELSE OwnDate(probe.arg.rows[k])

C5_Witness ==
    /\ FetchDone
    /\ probe.arg.sheetName = LabelDated
    /\ \E k \in 1..Len(probe.arg.rows) :
          /\ probe.arg.rows[k].date = Chars("10/01/2569")
          /\ probe.arg.rows[k].time = Chars("10:30")
          /\ Emitted(k)

\* C6: a row of at least two cells whose date cell is empty or well formed
\* is missing from the result exactly when its date cell is empty and its
\* amount is zero, with or without a label date.
C6_SkipRuleExact ==
    FetchedOk =>
        \A k \in 1..Len(probe.arg.rows) :
            (/\ ~probe.arg.rows[k].short
             /\ probe.arg.rows[k].date \in {<<>>} \cup WellFormedDates)
            => (Emitted(k) <=> ~TripsSkipRule(probe.arg.rows[k]))

\* C7: every emitted record has a category and a description; a row with
\* neither receiver nor note gets the two sentinels.
C7_CategoryDescriptionNeverEmpty ==
    FetchDone =>
        \A k \in 1..Len(probe.arg.rows) :
            Emitted(k) =>
                /\ RecordOf(k).category # <<>>
                /\ RecordOf(k).description # <<>>
                /\ (probe.arg.rows[k].receiver = <<>> /\ probe.arg.rows[k].note = <<>>)
                   => (RecordOf(k).category = OTHERS /\ RecordOf(k).description = UNSPECIFIED)

C7_Witness ==
    /\ FetchDone
    /\ \E k \in 1..Len(probe.arg.rows) :
          /\ probe.arg.rows[k].receiver = <<>>
          /\ probe.arg.rows[k].note = <<>>
          /\ ~probe.arg.rows[k].short
          /\ Emitted(k)

(***************************************************************************)
(* One call of fetchSheetData on a payload whose rows differ in the        *)
(* receiver cell (empty, short, of 29, 30 and 31 characters) and in the    *)
(* note cell (empty or not).                                               *)
(***************************************************************************)
Receivers ==
    { <<>>, Chars("Food"), SubSeq(LongReceiver, 1, 29), LongReceiver,
      LongReceiver \o <<".">> }

Notes == {<<>>, Chars("lunch")}

DeriveRows ==
    { RowOf(Chars("10/01/2569"), Chars("10:30"), r, Chars("150"), n) :
        r \in Receivers, n \in Notes }

DeriveProbes ==
    { [sourceIndex |-> 0, sheetName |-> LabelPlain, layout |-> ly, rows |-> rs,
       resp |-> Answered(TRUE, Payload(ly, rs))] :
        ly \in Layouts, rs \in SeqsUpTo(DeriveRows, 2) \ {<<>>} }

InitDerive ==
    /\ env \in Envs
    /\ now = NowStart
    /\ localStore = Stored("absent", <<>>)
    /\ AppInit
    /\ probe \in {[op |-> "fetchSheetData", arg |-> a, done |-> FALSE, ret |-> <<>>] :
                    a \in DeriveProbes}

NextDerive == CallFetchSheetData

SpecDerive == InitDerive /\ [][NextDerive]_vars

\* C22 as stated: the record of a row whose receiver cell is not empty and
\* under 30 characters has the receiver as category and the note cell as
\* description (the sentinel standing for an empty one); of a row whose
\* receiver has 30 characters or more, the category is the note (or the
\* 'other' sentinel) and the description 'receiver - note', or the receiver
\* alone when there is no note.
C22_DerivationThreshold30 ==
    FetchDone =>
        \A k \in 1..Len(probe.arg.rows) :
            LET r == probe.arg.rows[k].receiver
                n == probe.arg.rows[k].note
            IN  Emitted(k) =>
                  /\ (r # <<>> /\ Len(r) < 30) =>
                        /\ RecordOf(k).category = r
                        /\ RecordOf(k).description = IF n # <<>> THEN n ELSE UNSPECIFIED
                  /\ Len(r) >= 30 =>
                        /\ RecordOf(k).category = IF n # <<>> THEN n ELSE OTHERS
                        /\ RecordOf(k).description =
                               IF n # <<>> THEN r \o Chars(" - ") \o n ELSE r

\* C22 amended: as above, but the description of a row with a short receiver
\* and an empty note is the receiver cell itself.
C22_DerivationNoteOrReceiver ==
    FetchDone =>
        \A k \in 1..Len(probe.arg.rows) :
            LET r == probe.arg.rows[k].receiver
                n == probe.arg.rows[k].note
            IN  Emitted(k) =>
                  /\ (r # <<>> /\ Len(r) < 30) =>
                        /\ RecordOf(k).category = r
                        /\ RecordOf(k).description = IF n # <<>> THEN n ELSE r
                  /\ Len(r) >= 30 =>
                        /\ RecordOf(k).category = IF n # <<>> THEN n ELSE OTHERS
                        /\ RecordOf(k).description =
                               IF n # <<>> THEN r \o Chars(" - ") \o n ELSE r

\* A row with a receiver of 29 characters beside one with a receiver of 30,
\* both with a note, both emitted.
C22_Witness ==
    /\ FetchDone
    /\ Len(probe.arg.rows) = 2
    /\ Len(probe.arg.rows[1].receiver) = 29 /\ probe.arg.rows[1].note = Chars("lunch")
    /\ probe.arg.rows[2].receiver = LongReceiver /\ probe.arg.rows[2].note = Chars("lunch")
    /\ Emitted(1) /\ RecordOf(1).category = probe.arg.rows[1].receiver
    /\ Emitted(2) /\ RecordOf(2).category = Chars("lunch")
    /\ RecordOf(2).description = LongReceiver \o Chars(" - lunch")

(***************************************************************************)
(* One call of cleanAmount on an amount cell drawn in Init.                *)
(***************************************************************************)
AmountAlphabet == {"1", "9", "e", ".", "-", "x", ",", BAHT}

AmountCells ==
    SeqsUpTo(AmountAlphabet, MaxAmountLen)
    \cup { Chars("Infinity"), Chars("-Infinity"), Chars("1e999"), Chars("1e-999"),
           Chars("12abc"), Chars("1,250.50"), Chars(" 150 "), Chars("\"1,250\""),
           <<BAHT>> \o Chars("1,250.50") }

InitAmount ==
    /\ env \in Envs
    /\ now = NowStart
    /\ localStore = Stored("absent", <<>>)
    /\ AppInit
    /\ probe \in {[op |-> "cleanAmount", arg |-> a, done |-> FALSE, ret |-> <<>>] :
                    a \in AmountCells}

CallCleanAmount ==
    /\ probe.op = "cleanAmount" /\ ~probe.done
    /\ probe' = [probe EXCEPT !.done = TRUE, !.ret = cleanAmount(probe.arg)]
    /\ UNCHANGED <<env, now, appVars>>

NextAmount == CallCleanAmount

SpecAmount == InitAmount /\ [][NextAmount]_vars

\* What is left of a cell once currency glyphs, thousands separators, quote
\* characters and white space are gone.
Remainder(s) == Strip(s, {BAHT, ",", "\"", " ", "\t", "\n", "\r", "\f"})

\* t is a decimal number from its first character to its last: a sign, digits
\* with at most one point, an exponent.
IsDecimalText(t) ==
    LET body   == IF t # <<>> /\ Head(t) \in {"-", "+"} THEN Tail(t) ELSE t
        digs(u) == \A k \in 1..Len(u) : IsDigit(u[k])
        expo(u) == \/ u = <<>>
                   \/ /\ Len(u) >= 2 /\ u[1] \in {"e", "E"}
                      /\ LET v == IF u[2] \in {"-", "+"} THEN SubSeq(u, 3, Len(u))
                                  ELSE SubSeq(u, 2, Len(u))
                         IN  v # <<>> /\ digs(v)
    IN  \E a \in 0..Len(body) :
            /\ digs(SubSeq(body, 1, a))
            /\ \/ a >= 1 /\ expo(SubSeq(body, a + 1, Len(body)))
               \/ \E b \in (a + 1)..Len(body) :
                     /\ body[a + 1] = "."
                     /\ digs(SubSeq(body, a + 2, b))
                     /\ a + (b - a - 1) >= 1
                     /\ expo(SubSeq(body, b + 1, Len(body)))

\* C8: cleanAmount returns a finite number for every cell, and zero for every
\* cell whose remainder is not a decimal number.
C8_AmountFiniteAndZeroOnGarbage ==
    (probe.op = "cleanAmount" /\ probe.done) =>
        /\ IsFinite(probe.ret)
        /\ ~IsDecimalText(Remainder(probe.arg)) => IsZero(probe.ret)

(***************************************************************************)
(* One call of parseFlexibleDate or of extractDateFromText on a date drawn *)
(* in Init: three fields written with a separator, or a string that is no  *)
(* date.                                                                   *)
(***************************************************************************)
DateDays == {1, 9, 31}

DateMonths == {1, 4, 12}

DateYears == {24, 40, 41, 68, 99, 1857, 1858, 2026, 2400, 2401, 2569, 2943, 2944, 3000}

\* 'D<sep>M<sep>Y', day and month padded to two digits or not
WrittenDate(d, m, y, sep, pad) ==
    LET two(n) == IF pad THEN PadStart2(IntToStr(n)) ELSE IntToStr(n)
    IN  two(d) \o <<sep>> \o two(m) \o <<sep>> \o IntToStr(y)

\* 'YYYY-MM-DD', month and day of two digits
WrittenISO(d, m, y) ==
    IntToStr(y) \o <<"-">> \o PadStart2(IntToStr(m)) \o <<"-">> \o PadStart2(IntToStr(d))

\* Strings the date rules call invalid: empty, without a separator, not of
\* three numeric parts, or a day or month the calendar does not have.
InvalidDateStrings ==
    { <<>>, Chars("abc"), Chars("20260109"), Chars("1/2"), Chars("a/b/c"),
      Chars("31/04/2026"), Chars("29/02/2025"), Chars("01/13/2026"), Chars("2026-13-45") }

DateProbes ==
    { [op |-> "parseFlexibleDate",
       arg |-> [kind |-> "written", d |-> d, m |-> m, y |-> y, sep |-> sep, pad |-> pad,
                dateStr |-> WrittenDate(d, m, y, sep, pad), timeStr |-> t],
       done |-> FALSE, ret |-> <<>>] :
        d \in DateDays, m \in DateMonths, y \in DateYears, sep \in {"/", "-"},
        pad \in BOOLEAN, t \in {<<>>, Chars("10:30")} }
    \cup
    { [op |-> "extractDateFromText",
       arg |-> [kind |-> "written", d |-> d, m |-> m, y |-> y, sep |-> sep, pad |-> pad,
                dateStr |-> Chars("Sales ") \o WrittenDate(d, m, y, sep, pad),
                timeStr |-> <<>>],
       done |-> FALSE, ret |-> <<>>] :
        d \in DateDays, m \in DateMonths, y \in DateYears, sep \in DateSeps,
        pad \in BOOLEAN }
    \cup
    { [op |-> "parseFlexibleDate",
       arg |-> [kind |-> "iso", d |-> d, m |-> m, y |-> y, sep |-> "-", pad |-> TRUE,
                dateStr |-> WrittenISO(d, m, y), timeStr |-> t],
       done |-> FALSE, ret |-> <<>>] :
        d \in DateDays, m \in DateMonths, y \in {x \in DateYears : x >= 1000},
        t \in {<<>>, Chars("10:30")} }
    \cup
    { [op |-> "parseFlexibleDate",
       arg |-> [kind |-> "raw", d |-> 0, m |-> 0, y |-> 0, sep |-> "", pad |-> FALSE,
                dateStr |-> s, timeStr |-> t],
       done |-> FALSE, ret |-> <<>>] :
        s \in InvalidDateStrings, t \in {<<>>, Chars("10:30")} }

InitDate ==
    /\ env \in Envs
    /\ now = NowStart
    /\ localStore = Stored("absent", <<>>)
    /\ AppInit
    /\ probe \in DateProbes

CallParseFlexibleDate ==
    /\ probe.op = "parseFlexibleDate" /\ ~probe.done
    /\ probe' = [probe EXCEPT
                   !.done = TRUE,
                   !.ret = parseFlexibleDate(env, now, probe.arg.dateStr, probe.arg.timeStr)]
    /\ UNCHANGED <<env, now, appVars>>

\* The result is kept as a date: the Invalid Date stands for null.
CallExtractDateFromText ==
    /\ probe.op = "extractDateFromText" /\ ~probe.done
    /\ probe' = [probe EXCEPT !.done = TRUE,
                              !.ret = extractDateFromText(probe.arg.dateStr).date]
    /\ UNCHANGED <<env, now, appVars>>

NextDate == CallParseFlexibleDate \/ CallExtractDateFromText

SpecDate == InitDate /\ [][NextDate]_vars

\* C9: parseFlexibleDate returns the current instant for every invalid date
\* string.
C9_InvalidDateGivesNow ==
    (/\ probe.op = "parseFlexibleDate" /\ probe.done
     /\ probe.arg.dateStr \in InvalidDateStrings)
    => probe.ret = DateNow(now)

\* The same call on the date written with the year less 543.
EraTwin ==
    LET a    == probe.arg
        twin == WrittenDate(a.d, a.m, a.y - 543, a.sep, a.pad)
    IN  IF probe.op = "parseFlexibleDate"
        THEN parseFlexibleDate(env, now, twin, a.timeStr)
        ELSE extractDateFromText(Chars("Sales ") \o twin).date

\* A written date the claim is about: 'D/M/Y' for the structured parse, any
\* of the three separators for the label scan.
EraCase ==
    /\ probe.op \in {"parseFlexibleDate", "extractDateFromText"}
    /\ probe.done
    /\ probe.arg.kind = "written"
    /\ probe.op = "parseFlexibleDate" => probe.arg.sep = "/"

\* C10 as stated: for every year above 2400, 'D/M/Y' and 'D/M/(Y-543)' resolve
\* to the same instant, in the year Y-543.
C10_EraEveryYear ==
    (EraCase /\ probe.arg.y > 2400) =>
        /\ probe.ret = EraTwin
        /\ probe.ret.valid /\ getFullYear(probe.ret) = probe.arg.y - 543

\* C10 amended: the same for every year above 2400 and at most 2943, the
\* years whose Gregorian twin is not itself above 2400.
C10_EraUpTo2943 ==
    (EraCase /\ probe.arg.y > 2400 /\ probe.arg.y <= 2943) =>
        /\ probe.ret = EraTwin
        /\ probe.ret.valid /\ getFullYear(probe.ret) = probe.arg.y - 543

C10_Witness ==
    /\ EraCase
    /\ probe.op = "parseFlexibleDate"
    /\ probe.arg.dateStr = Chars("09/01/2569")
    /\ toISOString(probe.ret) = [y |-> 2026, mo |-> 1, d |-> 9, hh |-> 0, mm |-> 0]

\* A date written with a year under 100, by either function; the structured
\* parse takes the slash and the dash form, the label scan any separator.
PivotCase ==
    /\ probe.op \in {"parseFlexibleDate", "extractDateFromText"}
    /\ probe.done
    /\ probe.arg.kind = "written"
    /\ probe.arg.y < 100

\* C11: a date written with a two-digit year y resolves to the year 1957 + y
\* when y is in 41..99 and to the year 2000 + y when y is in 0..40, in the
\* structured parse (slash and dash forms) and in the label scan.
C11_TwoDigitPivot ==
    PivotCase =>
        /\ probe.ret.valid
        /\ getFullYear(probe.ret) =
              IF probe.arg.y > 40 THEN 1957 + probe.arg.y ELSE 2000 + probe.arg.y

\* A dash-separated date of a day the calendar has, written year first
\* ('YYYY-MM-DD') or day first ('DD-MM-YYYY') with a four-digit year.
DashCase ==
    /\ probe.op = "parseFlexibleDate"
    /\ probe.done
    /\ probe.arg.kind \in {"written", "iso"}
    /\ probe.arg.sep = "-"
    /\ probe.arg.y >= 1000
    /\ probe.arg.d <= DaysInMonth(EraToAD(probe.arg.y), probe.arg.m)

\* C21: a dash-separated date resolves to the day, month and year it is
\* written with (the year less 543 when it is a Buddhist year), whether it is
\* written 'YYYY-MM-DD' or 'DD-MM-YYYY'; the day-first form is never read as
\* month DD, day MM.
C21_DashYearFirstThenDayFirst ==
    DashCase =>
        /\ probe.ret.valid
        /\ getDate(probe.ret) = probe.arg.d
        /\ getMonth(probe.ret) = probe.arg.m - 1
        /\ getFullYear(probe.ret) = EraToAD(probe.arg.y)

\* The call has returned an instant (a date that is not the Invalid Date).
ResolvedCase ==
    /\ probe.op \in {"parseFlexibleDate", "extractDateFromText"}
    /\ probe.done
    /\ probe.ret.valid

\* The returned instant written for display and resolved again.
DisplayedAgain ==
    parseFlexibleDate(env, now, formatToThaiDisplayDate(probe.ret), Chars("00:00"))

SameCalendarDay(a, b) ==
    /\ a.valid /\ b.valid
    /\ getDate(a) = getDate(b)
    /\ getMonth(a) = getMonth(b)
    /\ getFullYear(a) = getFullYear(b)

\* C30 as stated: every instant the resolver returns, written with
\* formatToThaiDisplayDate and resolved again with parseFlexibleDate, gives
\* the same calendar day, month and Gregorian year.
C30_DisplayRoundTrip ==
    ResolvedCase => SameCalendarDay(DisplayedAgain, probe.ret)

\* C30 amended: the same for the instants of the Gregorian year 1858 and
\* later, whose displayed year is above 2400.
C30_DisplayRoundTripFrom1858 ==
    (ResolvedCase /\ getFullYear(probe.ret) >= 1858)
        => SameCalendarDay(DisplayedAgain, probe.ret)

C30_Witness ==
    /\ ResolvedCase
    /\ probe.op = "parseFlexibleDate"
    /\ probe.arg.dateStr = Chars("9/1/1858")
    /\ probe.arg.timeStr = Chars("10:30")
    /\ formatToThaiDisplayDate(probe.ret) = Chars("09/01/2401")
    /\ toISOString(DisplayedAgain) = [y |-> 1858, mo |-> 1, d |-> 9, hh |-> 0, mm |-> 0]

(***************************************************************************)
(* One call of parseCSV on a text drawn in Init: a row of cells written    *)
(* with every cell quoted, or lines of a payload with blank lines put      *)
(* between them.                                                           *)
(***************************************************************************)
MaxCellLen == 2     \* characters in a cell drawn from the alphabet

MaxLines == 3       \* lines of a payload

CellAlphabet == {"a", ",", "\"", "\n", " ", "\r"}

\* The cells of length n or less, and two longer ones.
CsvCells(n) ==
    SeqsUpTo(CellAlphabet, n)
    \cup { Chars("a\nb"), Chars("say \"hi\", ok") }

\* A cell in double quotes, the quotes in it doubled
QuotedCell(s) == <<"\"">> \o DoubleQuotes(s) \o <<"\"">>

RECURSIVE QuotedLine(_)
QuotedLine(cells) ==
    IF Len(cells) = 1 THEN QuotedCell(cells[1])
    ELSE QuotedCell(Head(cells)) \o <<",">> \o QuotedLine(Tail(cells))

\* Rows of one cell, and of two, the second of one character or less or
\* holding a line break.
QuotedRows(n) ==
    { <<c>> : c \in CsvCells(n) }
    \cup
    { <<c, d>> : c \in CsvCells(n), d \in SeqsUpTo(CellAlphabet, 1) \cup {Chars("a\nb")} }

\* Lines of a payload: plain cells, a quoted cell holding a line break, a
\* line of empty cells.
CsvLines == { Chars("a,b"), Chars("\"x\ny\",1"), Chars(",") }

\* Lines that are empty or hold white space alone, each with its line break.
BlankFills == { Chars("\n"), Chars(" \n"), Chars("\r\n"), Chars(" \t\n\n") }

\* The lines, each but the last followed by its line break and by gaps[k].
RECURSIVE JoinLines(_, _)
JoinLines(lines, gaps) ==
    IF Len(lines) = 1 THEN lines[1]
    ELSE Head(lines) \o <<"\n">> \o Head(gaps) \o JoinLines(Tail(lines), Tail(gaps))

NoGaps(n) == [k \in 1..(n - 1) |-> <<>>]

LineBreakIf(nl) == IF nl THEN <<"\n">> ELSE <<>>

\* A row written with every cell quoted, or up to maxLines lines with the
\* blank lines fill put after the lines whose index is in at.
CsvProbes(maxLen, maxLines) ==
    { [kind |-> "quoted", cells |-> row, text |-> QuotedLine(row) \o <<"\n">>,
       base |-> QuotedLine(row) \o <<"\n">>] : row \in QuotedRows(maxLen) }
    \cup
    UNION { { [kind |-> "lines", cells |-> lines,
               text |-> JoinLines(lines, [k \in 1..(n - 1) |-> IF k \in at THEN fill ELSE <<>>])
                        \o LineBreakIf(nl),
               base |-> JoinLines(lines, NoGaps(n)) \o LineBreakIf(nl)] :
                lines \in [1..n -> CsvLines], fill \in BlankFills,
                at \in SUBSET (1..(n - 1)), nl \in BOOLEAN } : n \in 1..maxLines }

InitCsv ==
    /\ env = [legacy |-> TRUE, west |-> FALSE]
    /\ now = NowStart
    /\ localStore = Stored("absent", <<>>)
    /\ AppInit
    /\ probe \in {[op |-> "parseCSV", arg |-> a, done |-> FALSE, ret |-> <<>>] :
                    a \in CsvProbes(MaxCellLen, MaxLines)}

CallParseCSV ==
    /\ probe.op = "parseCSV" /\ ~probe.done
    /\ probe' = [probe EXCEPT !.done = TRUE, !.ret = parseCSV(probe.arg.text)]
    /\ UNCHANGED <<env, now, appVars>>

NextCsv == CallParseCSV

SpecCsv == InitCsv /\ [][NextCsv]_vars

CsvDone == probe.op = "parseCSV" /\ probe.done

QuotedCase == CsvDone /\ probe.arg.kind = "quoted"

\* C12 as stated: a row of cells over commas, quotes, line breaks, spaces and
\* carriage returns, written with every cell quoted and ended by a line
\* break, parses to one row of the same cells.
C12_RoundTripExact ==
    QuotedCase => probe.ret = <<probe.arg.cells>>

\* What parseCSV keeps of a cell: no carriage return, no white space at
\* either end.
KeptOf(cell) == Trim(Strip(cell, {"\r"}))

\* C12 amended: the row parses to one row of the cells as parseCSV keeps
\* them, or to no row when every cell is kept empty; a row of cells that
\* hold no carriage return and neither start nor end with white space, one
\* of them not empty, parses to one row of the same cells.
C12_RoundTripKept ==
    QuotedCase =>
        LET kept == [k \in 1..Len(probe.arg.cells) |-> KeptOf(probe.arg.cells[k])]
        IN  /\ probe.ret = IF SomeCell(kept) THEN <<kept>> ELSE <<>>
            /\ (kept = probe.arg.cells /\ SomeCell(kept)) => probe.ret = <<probe.arg.cells>>

C12_Witness ==
    /\ QuotedCase
    /\ probe.arg.cells = <<Chars("say \"hi\", ok"), Chars("a\nb")>>
    /\ probe.ret = <<probe.arg.cells>>

AllEmpty(row) == \A k \in 1..Len(row) : row[k] = <<>>

\* C13: a payload with blank lines (empty or of white space alone) put
\* between its lines parses to the same rows as the payload without them,
\* and no row that parseCSV returns is made of empty cells alone.
C13_BlankLineInvariance ==
    CsvDone =>
        /\ probe.ret = parseCSV(probe.arg.base)
        /\ \A r \in 1..Len(probe.ret) : ~AllEmpty(probe.ret[r])

C13_Witness ==
    /\ CsvDone
    /\ probe.arg.kind = "lines"
    /\ probe.arg.cells = <<Chars("a,b"), Chars(","), Chars("\"x\ny\",1")>>
    /\ Len(probe.arg.text) = Len(probe.arg.base) + 8
    /\ probe.ret = << <<Chars("a"), Chars("b")>>, <<Chars("x\ny"), Chars("1")>> >>

(***************************************************************************)
(* One call of fetchSheetData on a successful response whose header row    *)
(* and data rows are drawn in Init.  The role indices the call holds after *)
(* lines 278-283 are kept with the records it returns.                     *)
(***************************************************************************)
MaxWidth == 4       \* cells in the first data row

ThaiAmount == <<"U+0E22", "U+0E2D", "U+0E14">>

ThaiDate == <<"U+0E27", "U+0E31", "U+0E19", "U+0E17", "U+0E35", "U+0E48">>

ThaiCategory == <<"U+0E2B", "U+0E21", "U+0E27", "U+0E14">>

\* Header rows: both roles named in the order amount, date; none named; all
\* named; the date alone; the amount alone; neither, with a time column; all
\* named in Thai; a sheet without header row, whose first row is data.
RoleHeaders ==
    { <<Chars("Amount"), Chars("Date")>>,
      <<Chars("A"), Chars("B"), Chars("C"), Chars("D")>>,
      <<Chars("Date"), Chars("Time"), Chars("Receiver"), Chars("Amount"), Chars("Note")>>,
      <<Chars("Date"), Chars("B"), Chars("C"), Chars("D")>>,
      <<Chars("A"), Chars("Price")>>,
      <<Chars("Note"), Chars("Category"), Chars("Time")>>,
      <<ThaiCategory, ThaiAmount, ThaiDate>>,
      <<Chars("07/01/2026"), Chars("99")>> }

RoleCells == { Chars("x"), Chars("09/01/2026"), Chars("150") }

\* First data rows: every row of 2..width cells, and rows holding empty
\* cells and the other shapes of date and amount.
FirstRows(width) ==
    UNION {[1..w -> RoleCells] : w \in 2..width}
    \cup
    { <<Chars("x"), Chars("09/01/2026"), Chars("y"), Chars("150")>>,
      <<Chars("x"), Chars("2026-01-09"), Chars("y"), Chars("1,250.50")>>,
      <<Chars("1/2"), Chars("12abc"), Chars("9-1-69"), Chars("1.5")>>,
      <<<<>>, Chars("150")>>,
      <<Chars("09/01/2026"), <<>>>>,
      <<<<>>, <<>>, Chars("x")>>,
      <<<<>>, Chars("09/01/2026"), <<>>, Chars("150")>>,
      <<Chars("20"), Chars("x"), Chars("Food"), Chars("150"), Chars("10/01/2026"),
        Chars("10:30"), Chars("lunch")>> }

\* Data rows after the first: none, or a row of shapes the first row lacks.
LaterRows == { <<>>, << <<Chars("08/01/2026"), Chars("20"), Chars("z")>> >> }

RoleProbes(width) ==
    { [headers |-> h, rows |-> <<>>, text |-> CsvText(<<h>>)] : h \in RoleHeaders }
    \cup
    { [headers |-> h, rows |-> <<r>> \o later, text |-> CsvText(<<h, r>> \o later)] :
        h \in RoleHeaders, r \in FirstRows(width), later \in LaterRows }

InitRoles ==
    /\ env = [legacy |-> TRUE, west |-> FALSE]
    /\ now = NowStart
    /\ localStore = Stored("absent", <<>>)
    /\ AppInit
    /\ probe \in {[op |-> "inferRoles", arg |-> a, done |-> FALSE, ret |-> <<>>] :
                    a \in RoleProbes(MaxWidth)}

InferRoles ==
    /\ probe.op = "inferRoles" /\ ~probe.done
    /\ probe' = [probe EXCEPT
                   !.done = TRUE,
                   !.ret = [roles |-> RoleMap(parseCSV(probe.arg.text)),
                            recs  |-> fetchSheetDataSettle(env, now,
                                          Answered(TRUE, probe.arg.text), 0, LabelPlain).recs]]
    /\ UNCHANGED <<env, now, appVars>>

NextRoles == InferRoles

SpecRoles == InitRoles /\ [][NextRoles]_vars

RolesDone == probe.op = "inferRoles" /\ probe.done

\* The header cells as the code compares them, and what keyword matching
\* alone gives for a role (-1: no header cell matches).
LoweredHeaders == [k \in 1..Len(probe.arg.headers) |-> Trim(toLowerCase(probe.arg.headers[k]))]

KeywordDate == FindHeader(LoweredHeaders, DateKeywords)

KeywordAmount == FindHeader(LoweredHeaders, AmountKeywords)

\* C14: a date or amount role that a header keyword resolved keeps the index
\* of that header whatever the first data row holds; under the headers
\* Amount, Date the amount role is 0 and the date role is 1.
C14_KeywordBeforeSniff ==
    RolesDone =>
        /\ KeywordDate # -1 => probe.ret.roles.date = KeywordDate
        /\ KeywordAmount # -1 => probe.ret.roles.amt = KeywordAmount
        /\ probe.arg.headers = <<Chars("Amount"), Chars("Date")>>
           => (probe.ret.roles.amt = 0 /\ probe.ret.roles.date = 1)

C14_Witness ==
    /\ RolesDone
    /\ probe.arg.headers = <<Chars("Amount"), Chars("Date")>>
    /\ probe.arg.rows = << <<Chars("09/01/2026"), Chars("150")>> >>
    /\ probe.ret.roles.amt = 0 /\ probe.ret.roles.date = 1

DigitsOf(s, lo, hi) == Len(s) \in lo..hi /\ \A k \in 1..Len(s) : IsDigit(s[k])

\* Three groups of digits separated by '/' or by '-': day, month, year or
\* year, month, day.
IsDateShaped(cell) ==
    \E sep \in {"/", "-"} :
        LET p == Split(cell, sep)
        IN  /\ Len(p) = 3
            /\ \/ DigitsOf(p[1], 1, 2) /\ DigitsOf(p[2], 1, 2) /\ DigitsOf(p[3], 2, 4)
               \/ DigitsOf(p[1], 4, 4) /\ DigitsOf(p[2], 1, 2) /\ DigitsOf(p[3], 1, 2)

\* Digits with thousands separators and a decimal point.
IsNumericShaped(cell) ==
    /\ \E k \in 1..Len(cell) : IsDigit(cell[k])
    /\ \A k \in 1..Len(cell) : IsDigit(cell[k]) \/ cell[k] \in {",", "."}

\* The 0-based index of the first cell of the row with the shape, dflt of none.
FirstDateShaped(row, dflt) ==
    IF \E k \in 1..Len(row) : IsDateShaped(row[k])
    THEN (CHOOSE k \in 1..Len(row) :
              IsDateShaped(row[k]) /\ \A j \in 1..(k - 1) : ~IsDateShaped(row[j])) - 1
    ELSE dflt

FirstNumericShaped(row, dflt) ==
    IF \E k \in 1..Len(row) : IsNumericShaped(row[k])
    THEN (CHOOSE k \in 1..Len(row) :
              IsNumericShaped(row[k]) /\ \A j \in 1..(k - 1) : ~IsNumericShaped(row[j])) - 1
    ELSE dflt

\* C15: when no header names the date or the amount and there is a data row,
\* the date role is the index of the first date-shaped cell of the first data
\* row and the amount role that of its first numeric-shaped cell (the
\* defaults 4 and 3 when it has none); under the headers A, B, C, D and the
\* row x, 09/01/2026, y, 150 they are 1 and 3.
C15_SniffFallback ==
    (RolesDone /\ KeywordDate = -1 /\ KeywordAmount = -1 /\ probe.arg.rows # <<>>) =>
        /\ probe.ret.roles.date = FirstDateShaped(probe.arg.rows[1], 4)
        /\ probe.ret.roles.amt = FirstNumericShaped(probe.arg.rows[1], 3)
        /\ probe.arg.rows[1] = <<Chars("x"), Chars("09/01/2026"), Chars("y"), Chars("150")>>
           => (probe.ret.roles.date = 1 /\ probe.ret.roles.amt = 3)

C15_Witness ==
    /\ RolesDone
    /\ probe.arg.headers = <<Chars("A"), Chars("B"), Chars("C"), Chars("D")>>
    /\ probe.arg.rows = << <<Chars("x"), Chars("09/01/2026"), Chars("y"), Chars("150")>> >>
    /\ probe.ret.roles.date = 1 /\ probe.ret.roles.amt = 3

\* The record of data row k among the records returned.
RoleRecords(k) == { j \in 1..Len(probe.ret.recs) : probe.ret.recs[j].id = RowId(0, k) }

RoleRecord(k) == probe.ret.recs[CHOOSE j \in RoleRecords(k) : TRUE]

OutOfRow(row, idx) == idx >= Len(row)

\* The cell of a role, a role out of the row reading as the empty string.
ReadAs(row, idx) == IF OutOfRow(row, idx) THEN <<>> ELSE row[idx + 1]

\* C16: every role has an index of 0 or more; a role that neither a header
\* keyword nor, for the date and the amount, a cell of the first data row
\* resolved has its default (category 2, amount 3, date 4, time 5, note 6);
\* and a data row of two cells or more that is too short for a role is read
\* with the empty string for it and the call does not fail: the row is
\* skipped when it then has no date and a zero amount, and otherwise it is
\* returned, with the amount zero when the amount is out of the row, dated
\* now when the date is, and with the sentinel category and description
\* when the category and the note are.
C16_RoleMapTotal ==
    RolesDone =>
        LET roles == probe.ret.roles
            sniff == probe.arg.rows # <<>>
        IN  /\ \A r \in {"date", "time", "amt", "note", "receiver"} : roles[r] >= 0
            /\ FindHeader(LoweredHeaders, ReceiverKeywords) = -1 => roles.receiver = 2
            /\ FindHeader(LoweredHeaders, TimeKeywords) = -1 => roles.time = 5
            /\ FindHeader(LoweredHeaders, NoteKeywords) = -1 => roles.note = 6
            /\ (KeywordAmount = -1
                /\ ~(sniff /\ \E k \in 1..Len(probe.arg.rows[1]) :
                                  IsNumericShaped(probe.arg.rows[1][k])))
               => roles.amt = 3
            /\ (KeywordDate = -1
                /\ ~(sniff /\ \E k \in 1..Len(probe.arg.rows[1]) :
                                  IsDateShaped(probe.arg.rows[1][k])))
               => roles.date = 4
            /\ \A k \in 1..Len(probe.arg.rows) :
                  LET row == probe.arg.rows[k]
                  IN  (\E r \in {"date", "time", "amt", "note", "receiver"} :
                           OutOfRow(row, roles[r]))
                      => IF /\ ReadAs(row, roles.date) = <<>>
                            /\ IsZero(cleanAmount(ReadAs(row, roles.amt)))
                         THEN RoleRecords(k) = {}
                         ELSE /\ RoleRecords(k) # {}
                              /\ OutOfRow(row, roles.amt) => IsZero(RoleRecord(k).amount)
                              /\ OutOfRow(row, roles.date)
                                 => RoleRecord(k).date = toISOString(DateNow(now))
                              /\ (OutOfRow(row, roles.receiver) /\ OutOfRow(row, roles.note))
                                 => /\ RoleRecord(k).category = OTHERS
                                    /\ RoleRecord(k).description = UNSPECIFIED

C16_Witness ==
    /\ RolesDone
    /\ probe.arg.headers = <<Chars("A"), Chars("B"), Chars("C"), Chars("D")>>
    /\ probe.arg.rows = << <<Chars("x"), Chars("150")>> >>
    /\ probe.ret.roles = [amt |-> 1, date |-> 4, time |-> 5, note |-> 6, receiver |-> 2]
    /\ RoleRecords(1) # {}
    /\ RoleRecord(1).date = toISOString(DateNow(now))
    /\ RoleRecord(1).category = OTHERS

\* The rows parseCSV makes of the payload, the first being row 0, and the
\* rows whose index a record's id carries.
ParsedRows == parseCSV(probe.arg.text)

RowsOfId(rec) == {i \in 0..(Len(ParsedRows) - 1) : rec.id = RowId(0, i)}

\* C28: no record comes from the first parsed row, with or without header
\* keywords in it; every record carries in its id the index i >= 1 of one
\* parsed row and holds the amount of that row; and the records are in
\* increasing order of that index, so that no row gives two records.
C28_RowRecordCorrespondence ==
    RolesDone =>
        LET recs == probe.ret.recs
            AmountOf(row) ==
                cleanAmount(IF ReadAs(row, probe.ret.roles.amt) = <<>> THEN <<"0">>
                            ELSE ReadAs(row, probe.ret.roles.amt))
        IN  /\ \A j \in 1..Len(recs) :
                  \E i \in 1..(Len(ParsedRows) - 1) :
                      /\ RowsOfId(recs[j]) = {i}
                      /\ recs[j].amount = AmountOf(ParsedRows[i + 1])
            /\ \A j, k \in 1..Len(recs) :
                  j < k => \A a \in RowsOfId(recs[j]) : \A b \in RowsOfId(recs[k]) : a < b

\* A sheet without header row: the first row, though it is data, gives no
\* record, and the two rows after it give the records of rows 1 and 2.
C28_Witness ==
    /\ RolesDone
    /\ probe.arg.headers = <<Chars("07/01/2026"), Chars("99")>>
    /\ Len(probe.arg.rows) = 2
    /\ Len(probe.ret.recs) = 2
    /\ probe.ret.recs[1].id = RowId(0, 1)
    /\ probe.ret.recs[2].id = RowId(0, 2)
    /\ \A j \in 1..2 : probe.ret.recs[j].date.d # 7

\* C29: the five roles have five different column indices.
C29_RolesPairwiseDifferent ==
    RolesDone =>
        \A r, q \in {"date", "time", "amt", "note", "receiver"} :
            r # q => probe.ret.roles[r] # probe.ret.roles[q]

(***************************************************************************)
(* One call of fetchSheetData on a reference drawn in Init, in two steps:  *)
(* the call up to its request (lines 199-231), which ends it at once when  *)
(* the reference is skipped, and the answer of the network (231-350).      *)
(* probe.requested holds the URLs the call has asked the network for.      *)
(***************************************************************************)
PublishedBase == Chars("https://docs.google.com/spreadsheets/d/e/2PACX-1vQabc")

\* What follows the published path: nothing, a query with or without the
\* tab identifier 5 and with or without the CSV output, a fragment.
PublishedTails ==
    { [gid |-> <<>>, text |-> <<>>],
      [gid |-> <<>>, text |-> Chars("?single=true")],
      [gid |-> <<>>, text |-> Chars("?output=csv")],
      [gid |-> <<"5">>, text |-> Chars("?gid=5")],
      [gid |-> <<"5">>, text |-> Chars("?gid=5&single=true")],
      [gid |-> <<"5">>, text |-> Chars("?single=true&gid=5")],
      [gid |-> <<"5">>, text |-> Chars("?gid=5&single=true&output=csv")],
      [gid |-> <<"5">>, text |-> Chars("#gid=5")],
      [gid |-> <<"5">>, text |-> Chars("?single=true#gid=5")] }

PublishedRefs ==
    { [ref |-> PublishedBase \o path \o tail.text, gid |-> tail.gid] :
        path \in {<<>>, Chars("/pub"), Chars("/pubhtml")}, tail \in PublishedTails }

\* Document links and bare identifiers, and references that are neither.
OtherRefs ==
    { [ref |-> r, gid |-> <<>>] :
        r \in { Chars("1ZJ01yx27FMzBDKdXAF3e1Gy9s6HokAC4FsO6BESzi_w"),
                Chars("  1ZJ01yx27FMzBDKdXAF3e1Gy9s6HokAC4FsO6BESzi_w "),
                Chars("https://docs.google.com/spreadsheets/d/1ZJ01yx27FMzBDKdXAF3e/edit"),
                Chars("hello"),
                Chars("not a link"),
                Chars("123456789012345"),
                Chars("https://example.com/sheet"),
                Chars("https://docs.google.com/spreadsheets/d/short/edit"),
                Chars("https://docs.google.com/spreadsheets/u/0/"),
                Chars("abc/defghijklmnopqrstuvwxyz") } }
    \cup
    { [ref |-> DEFAULT_URL, gid |-> <<"0">>],
      [ref |-> Chars("https://docs.google.com/spreadsheets/d/1ZJ01yx27FMzBDKdXAF3e/edit?gid=7"),
       gid |-> <<"7">>],
      [ref |-> Chars("https://example.com/sheet?gid=7"), gid |-> <<"7">>] }

InitUrl ==
    /\ env = [legacy |-> TRUE, west |-> FALSE]
    /\ now = NowStart
    /\ localStore = Stored("absent", <<>>)
    /\ AppInit
    /\ probe \in {[op |-> "fetchUrl", arg |-> a, done |-> FALSE, requested |-> <<>>,
                   ret |-> [rejected |-> FALSE, recs |-> <<>>]] :
                    a \in PublishedRefs \cup OtherRefs}

\* Lines 199-231: the reference is skipped (return []) or the URL is requested.
StartFetch ==
    /\ probe.op = "fetchUrl" /\ ~probe.done /\ probe.requested = <<>>
    /\ probe' = IF FetchUrl(probe.arg.ref) = <<>>
                THEN [probe EXCEPT !.done = TRUE]
                ELSE [probe EXCEPT !.requested = <<FetchUrl(probe.arg.ref)>>]
    /\ UNCHANGED <<env, now, appVars>>

\* Lines 231-350: the network answers the request with resp.
FetchRespond(resp) ==
    /\ probe.op = "fetchUrl" /\ ~probe.done /\ probe.requested # <<>>
    /\ probe' = [probe EXCEPT !.done = TRUE,
                              !.ret = fetchSheetDataSettle(env, now, resp, 0, LabelPlain)]
    /\ UNCHANGED <<env, now, appVars>>

NextUrl ==
    \/ StartFetch
    \/ \E resp \in {Rejected, Answered(FALSE, <<>>),
                    Answered(TRUE, Payload("named", <<RowOf(Chars("09/01/2569"), <<>>,
                                       Chars("Food"), Chars("150"), Chars("lunch"))>>))} :
          FetchRespond(resp)

SpecUrl == InitUrl /\ [][NextUrl]_vars

\* The call has passed lines 199-231.
UrlStarted == probe.op = "fetchUrl" /\ (probe.done \/ probe.requested # <<>>)

\* A reference that is no published link and holds no document identifier:
\* no '/d/' followed by 15 identifier characters, and not a string without
\* '/' of more than 15 characters.
Unparseable(ref) ==
    LET c == Trim(ref)
    IN  /\ ~Includes(c, Chars("/d/e/"))
        /\ ~\E i \in 1..Len(c) :
               /\ MatchAt(c, Chars("/d/"), i)
               /\ i + 17 <= Len(c)
               /\ \A k \in (i + 3)..(i + 17) : IsIdChar(c[k])
        /\ ~(~Includes(c, <<"/">>) /\ Len(c) > 15)

\* C17: for an unparseable reference the call is over once lines 199-231
\* have run, with the empty sequence as its result, no URL requested and no
\* rejection.
C17_UnparseableReference ==
    (UrlStarted /\ Unparseable(probe.arg.ref)) =>
        /\ probe.done
        /\ probe.requested = <<>>
        /\ probe.ret = [rejected |-> FALSE, recs |-> <<>>]

C17_Witness ==
    /\ UrlStarted
    /\ probe.arg.ref = Chars("https://docs.google.com/spreadsheets/d/short/edit")
    /\ probe.done
    /\ probe.requested = <<>>

\* The parameters of the query part of a URL: what stands between the first
\* '?' and the fragment, split at '&'.
QueryParams(url) ==
    LET NoFragment(u) == IF Includes(u, <<"#">>) THEN SubSeq(u, 1, IndexOf(u, <<"#">>) - 1) ELSE u
        OfPath(u) == IF Includes(u, <<"?">>)
                     THEN Split(SubSeq(u, IndexOf(u, <<"?">>) + 1, Len(u)), "&")
                     ELSE <<>>
    IN  OfPath(NoFragment(url))

HasParam(url, param) == \E k \in 1..Len(QueryParams(url)) : QueryParams(url)[k] = param

\* C18: the URL requested for a published link has output=csv among the
\* parameters of its query part, and the gid of the reference, when it has
\* one, as well.
C18_PublishedLinkRewriting ==
    (UrlStarted /\ Includes(probe.arg.ref, Chars("/d/e/"))) =>
        /\ Len(probe.requested) = 1
        /\ HasParam(probe.requested[1], Chars("output=csv"))
        /\ probe.arg.gid # <<>> => HasParam(probe.requested[1], Chars("gid=") \o probe.arg.gid)

(***************************************************************************)
(* The application: the mount effect, the sync button, the fetches of the  *)
(* loadData calls in flight settling in any order.                         *)
(***************************************************************************)
SheetMain == [url |-> DEFAULT_URL, name |-> DEFAULT_NAME]

SheetDated ==
    [url |-> Chars("1ZJ01yx27FMzBDKdXAF3e1Gy9s6HokAC4FsO6BESzi_w"), name |-> LabelDated]

SheetBlank == [url |-> <<>>, name |-> <<>>]

LocalChoices ==
    { Stored("absent", <<>>), Stored("invalid", <<>>),
      Stored("configs", <<SheetBlank, SheetDated>>),
      Stored("configs", <<SheetMain, SheetDated>>) }

RemoteChoices ==
    { Stored("absent", <<>>),
      Stored("configs", <<>>),
      Stored("other", <<>>),
      Stored("strings", <<DEFAULT_URL>>),
      Stored("configs", <<SheetDated, SheetMain>>) }

\* A sheet of two rows, the earlier date first.
SheetText ==
    Payload("brief", <<RowOf(Chars("08/01/2569"), <<>>, <<>>, Chars("20"), <<>>),
                       RowOf(Chars("2026-01-09"), <<>>, <<>>, Chars("150"), <<>>)>>)

Responses == { Rejected, Answered(FALSE, <<>>), Answered(TRUE, SheetText) }

Init ==
    /\ env \in Envs
    /\ now = NowStart
    /\ localStore \in LocalChoices
    /\ AppInit
    /\ probe = NoProbe

\* The mount effect (App.tsx 64-92) once getSheetUrlsFromFirebase has
\* answered with remote.
LoadSettings(remote) ==
    /\ ~settingsLoaded
    /\ Len(loads) < MaxLoads
    /\ settingsLoaded' = TRUE
    /\ IF remote.kind # "absent" /\ Len(normalizeData(remote)) > 0
       THEN /\ sheets' = normalizeData(remote)
            /\ isFirebaseConnected' = TRUE
            /\ loadData(normalizeData(remote))
       ELSE IF localStore.kind = "absent"
       THEN /\ loadData(InitialSheets)
            /\ UNCHANGED <<sheets, isFirebaseConnected>>
       ELSE IF localStore.kind = "invalid"
       THEN UNCHANGED <<sheets, isFirebaseConnected, transactions, isLoading, error,
                        isUsingRealData, loads>>
       ELSE /\ sheets' = normalizeData(localStore)
            /\ loadData(normalizeData(localStore))
            /\ UNCHANGED isFirebaseConnected
    /\ UNCHANGED <<env, now, localStore, selectedSheetIndex, saves, probe>>

\* handleSync (App.tsx 151-153)
HandleSync ==
    /\ Len(loads) < MaxLoads
    /\ loadData(sheets)
    /\ UNCHANGED <<env, now, localStore, settingsLoaded, sheets, isFirebaseConnected,
                   selectedSheetIndex, saves, probe>>

\* The fetch of source k of load l settles with resp.  The call goes on past
\* its await once Promise.all settles: at the first rejection, or when every
\* promise has fulfilled.
FetchSettle(l, k, resp) ==
    LET Resume(res) ==
            IF (\E j \in 1..Len(res) : res[j].rejected) \/ AllSettled(res)
            THEN ApplyFinish(l, res, error)
            ELSE /\ loads' = [loads EXCEPT ![l] = [@ EXCEPT !.res = res]]
                 /\ UNCHANGED <<transactions, isLoading, error, isUsingRealData>>
    IN  /\ ~loads[l].done
        /\ loads[l].res[k].state = "pending"
        /\ Resume([loads[l].res EXCEPT
                      ![k] = Settled(NetKind(resp),
                                     fetchSheetDataSettle(env, now, resp, k - 1,
                                                          loads[l].src[k].name))])
        /\ UNCHANGED <<env, now, localStore, settingsLoaded, sheets, isFirebaseConnected,
                       selectedSheetIndex, saves, probe>>

Next ==
    \/ \E remote \in RemoteChoices : LoadSettings(remote)
    \/ HandleSync
    \/ \E l \in 1..Len(loads) : \E k \in 1..Len(loads[l].res) : \E resp \in Responses :
          FetchSettle(l, k, resp)

Spec == Init /\ [][Next]_vars

\* Call l of loadData comes to its end in this step.
Completes(l) == loads'[l].done /\ (l > Len(loads) \/ ~loads[l].done)

\* results.flat() of the results res, and the same without the sources whose
\* retrieval failed.
Gathered(res) == Flat([k \in 1..Len(res) |-> res[k].recs])

GatheredElsewhere(res) ==
    Flat([k \in 1..Len(res) |-> IF res[k].net = "failed" THEN <<>> ELSE res[k].recs])

Occurrences(list, x) == Cardinality({i \in 1..Len(list) : list[i] = x})

\* a and b hold the same records the same number of times.
SameRecords(a, b) ==
    /\ Len(a) = Len(b)
    /\ \A i \in 1..Len(a) : Occurrences(a, a[i]) = Occurrences(b, a[i])

\* The instant of a record's date, in minutes.
Instant(rec) ==
    DaysFromCivil(rec.date.y, rec.date.mo, rec.date.d) * 1440 + rec.date.hh * 60 + rec.date.mm

\* C2: when a loadData call ends and the retrieval of one of its sources
\* failed (the request threw or the status was not a success), that source
\* contributed no record, the call did not take its catch branch, and if the
\* other sources gathered any record the transactions are exactly their
\* records, shown as real data.
C2_PartialFailureIsolated ==
    [][\A l \in 1..Len(loads') :
          (Completes(l) /\ \E k \in 1..Len(loads'[l].res) : loads'[l].res[k].net = "failed")
          => /\ \A k \in 1..Len(loads'[l].res) :
                   loads'[l].res[k].net = "failed" => loads'[l].res[k].recs = <<>>
             /\ loads'[l].outcome # "failed"
             /\ GatheredElsewhere(loads'[l].res) # <<>>
                => /\ loads'[l].outcome = "real"
                   /\ isUsingRealData'
                   /\ SameRecords(transactions', GatheredElsewhere(loads'[l].res))]_vars

C2_Witness ==
    \E l \in 1..Len(loads) :
        /\ loads[l].done
        /\ \E k \in 1..Len(loads[l].res) : loads[l].res[k].net = "failed"
        /\ GatheredElsewhere(loads[l].res) # <<>>
        /\ loads[l].outcome = "real"
        /\ isUsingRealData
        /\ SameRecords(transactions, GatheredElsewhere(loads[l].res))

\* C3: when a loadData call ends with at least one gathered record, the
\* transactions are the gathered records of all its sources, each adjacent
\* pair in descending order of instant, whatever the order the fetches
\* settled in.
C3_SortedDescending ==
    [][\A l \in 1..Len(loads') :
          (Completes(l) /\ Gathered(loads'[l].res) # <<>>)
          => /\ SameRecords(transactions', Gathered(loads'[l].res))
             /\ \A i \in 1..(Len(transactions') - 1) :
                   Instant(transactions'[i]) >= Instant(transactions'[i + 1])]_vars

C3_Witness ==
    \E l \in 1..Len(loads) :
        /\ loads[l].done
        /\ Len(loads[l].res) = 2
        /\ loads[l].res[1].recs # <<>> /\ loads[l].res[2].recs # <<>>
        /\ SameRecords(transactions, Gathered(loads[l].res))
        /\ transactions # Gathered(loads[l].res)
        /\ \A i \in 1..(Len(transactions) - 1) :
              Instant(transactions[i]) >= Instant(transactions[i + 1])

NoTwoIdsEqual(list) ==
    \A i, j \in 1..Len(list) : i # j => list[i].id # list[j].id

\* C4: no two records gathered by one loadData call have the same id, and no
\* two transactions have.
C4_IdsUnique ==
    /\ \A l \in 1..Len(loads) : NoTwoIdsEqual(Gathered(loads[l].res))
    /\ NoTwoIdsEqual(transactions)

C4_Witness ==
    \E l \in 1..Len(loads) :
        /\ loads[l].done
        /\ Len(loads[l].res) = 2
        /\ \E a \in 1..Len(loads[l].res[1].recs) : loads[l].res[1].recs[a].id = RowId(0, 1)
        /\ \E b \in 1..Len(loads[l].res[2].recs) : loads[l].res[2].recs[b].id = RowId(1, 1)
        /\ SameRecords(transactions, Gathered(loads[l].res))

\* The configuration the startup precedence picks: the remote one when the
\* remote store answers a list that is not empty, else the local one when
\* the local storage holds a value that parses, else the built-in default.
Precedence(remote, local) ==
    IF normalizeData(remote) # <<>> THEN normalizeData(remote)
    ELSE IF local.kind \notin {"absent", "invalid"} THEN normalizeData(local)
    ELSE InitialSheets

\* C23: whatever the remote store answers (nothing, a list, an empty list, a
\* value that is no list) and whatever the local storage holds (nothing, a
\* valid value, invalid JSON), the mount effect starts exactly one loadData
\* call, over the configuration the precedence picks.
C23_StartupLoadsOnce ==
    [][(~settingsLoaded /\ settingsLoaded') =>
          /\ Len(loads') = Len(loads) + 1
          /\ \E remote \in RemoteChoices :
                /\ sheets' = Precedence(remote, localStore)
                /\ loads'[Len(loads')].src = ValidSheets(Precedence(remote, localStore))]_vars

\* Record rec was fetched from source k of call l.
FetchedFrom(l, k, rec) ==
    \E j \in 1..Len(loads'[l].res[k].recs) : loads'[l].res[k].recs[j] = rec

\* C24: when a loadData call ends with real data, the sheetSourceIndex of
\* every displayed record is the index, in the configured sheets, of the
\* sheet the record was fetched from, also when sheets with a blank URL come
\* before it.
C24_SourceIndexIsSheetIndex ==
    [][\A l \in 1..Len(loads') :
          (Completes(l) /\ loads'[l].outcome = "real") =>
             \A i \in 1..Len(transactions') :
                LET rec == transactions'[i]
                IN  /\ rec.sheetSourceIndex + 1 \in 1..Len(sheets')
                    /\ \E k \in 1..Len(loads'[l].res) :
                          /\ FetchedFrom(l, k, rec)
                          /\ sheets'[rec.sheetSourceIndex + 1] = loads'[l].src[k]]_vars

\* What the loadData call l, now over, has set (lines 116-148); the notice
\* is the one it ends with, having cleared it when it started.
OutcomeOf(l) ==
    LET OfFinish(f) == [transactions |-> f.transactions, isUsingRealData |-> f.isUsingRealData,
                        error |-> IF f.error = "keep" THEN "null" ELSE f.error]
    IN  IF loads[l].outcome = "placeholder"
        THEN [transactions |-> generateMockData(now), isUsingRealData |-> FALSE,
              error |-> "null"]
        ELSE OfFinish(Finish(now, loads[l].res))

\* C26: once every loadData call started is over, the transactions, the
\* real-data flag and the notice are those of the call started last, in
\* whatever order the calls ended; and isLoading is true whenever a call is
\* still in flight.
C26_LastStartedWins ==
    /\ (Len(loads) > 0 /\ \A l \in 1..Len(loads) : loads[l].done)
       => /\ transactions = OutcomeOf(Len(loads)).transactions
          /\ isUsingRealData = OutcomeOf(Len(loads)).isUsingRealData
          /\ error = OutcomeOf(Len(loads)).error
    /\ (\E l \in 1..Len(loads) : ~loads[l].done) => isLoading

\* C19: when a loadData call that fetched its sources ends with no record
\* from any of them, the transactions are the placeholder data, shown as not
\* real, and the notice is set; when it ends with records although the
\* retrieval of some source failed, the transactions are those records,
\* shown as real, and there is no notice.
C19_EmptyAggregateFallback ==
    [][\A l \in 1..Len(loads') :
          Completes(l) =>
             /\ (loads'[l].src # <<>> /\ Gathered(loads'[l].res) = <<>>)
                => /\ transactions' = generateMockData(now)
                   /\ ~isUsingRealData'
                   /\ error' = NOTICE_EMPTY
             /\ (/\ Gathered(loads'[l].res) # <<>>
                 /\ \E k \in 1..Len(loads'[l].res) : loads'[l].res[k].net = "failed")
                => /\ SameRecords(transactions', Gathered(loads'[l].res))
                   /\ isUsingRealData'
                   /\ error' = "null"]_vars

\* C20: when a loadData call ends, the transactions are the records that
\* call gathered, and nothing else, or the placeholder data when it
\* gathered none, whatever was on display before.
C20_WholesaleReplacement ==
    [][\A l \in 1..Len(loads') :
          Completes(l) =>
             IF Gathered(loads'[l].res) # <<>>
             THEN SameRecords(transactions', Gathered(loads'[l].res))
             ELSE transactions' = generateMockData(now)]_vars

C20_Witness ==
    /\ Len(loads) = 2
    /\ loads[1].done /\ loads[2].done
    /\ Len(Gathered(loads[1].res)) > Len(Gathered(loads[2].res))
    /\ Gathered(loads[2].res) # <<>>
    /\ SameRecords(transactions, Gathered(loads[2].res))

(***************************************************************************)
(* The configuration panel: the sheet list is edited (addSheet,            *)
(* updateSheet, removeSheet, the import of a configuration file), every    *)
(* edit going through handleConfigChange, whose remote save settles later; *)
(* a sheet card is selected; syncs run in between.                         *)
(***************************************************************************)
MaxEdits == 2       \* handleConfigChange calls in one run

MaxSheets == 2      \* sheets addSheet grows the list to

\* saveSheetUrlsToFirebase(data) (firebase service 84-99) once called: the
\* promise it returns, and what becomes of the write ("unavailable" when
\* initFirebase fails or there is no database, "failed" when set() rejects,
\* "saved" when it resolves).
SaveCall(data) == [data |-> data, state |-> "pending", write |-> "none"]

\* handleConfigChange (App.tsx 95-105) up to the remote answer
handleConfigChange(newSheets) ==
    /\ sheets' = newSheets
    /\ localStore' = Stored("configs", newSheets)
    /\ saves' = Append(saves, SaveCall(newSheets))

\* addSheet (App.tsx 155-158)
AddSheet ==
    /\ Len(saves) < MaxEdits
    /\ Len(sheets) < MaxSheets
    /\ handleConfigChange(Append(sheets, [url |-> <<>>, name |-> <<>>]))
    /\ UNCHANGED <<env, now, settingsLoaded, transactions, isLoading, error, isUsingRealData,
                   isFirebaseConnected, selectedSheetIndex, loads, probe>>

\* updateSheet (App.tsx 160-164); index is 0-based
UpdateSheet(index, field, value) ==
    /\ Len(saves) < MaxEdits
    /\ index + 1 \in 1..Len(sheets)
    /\ handleConfigChange([sheets EXCEPT ![index + 1] =
                              IF field = "url" THEN [@ EXCEPT !.url = value]
                              ELSE [@ EXCEPT !.name = value]])
    /\ UNCHANGED <<env, now, settingsLoaded, transactions, isLoading, error, isUsingRealData,
                   isFirebaseConnected, selectedSheetIndex, loads, probe>>

\* removeSheet (App.tsx 166-170); index is 0-based
RemoveSheet(index) ==
    LET newSheets == [k \in 1..(Len(sheets) - 1) |->
                         IF k < index + 1 THEN sheets[k] ELSE sheets[k + 1]]
    IN  /\ Len(saves) < MaxEdits
        /\ index + 1 \in 1..Len(sheets)
        /\ handleConfigChange(IF Len(newSheets) > 0 THEN newSheets
                              ELSE <<[url |-> <<>>, name |-> <<>>]>>)
        /\ UNCHANGED <<env, now, settingsLoaded, transactions, isLoading, error,
                       isUsingRealData, isFirebaseConnected, selectedSheetIndex, loads, probe>>

\* handleImportConfig (App.tsx 186-211) when the file has been read: file is
\* its content, confirm the answer to window.confirm.
ImportConfig(file, confirm) ==
    /\ Len(saves) < MaxEdits
    /\ file.kind # "invalid"
    /\ confirm
    /\ handleConfigChange(normalizeData(file))
    /\ UNCHANGED <<env, now, settingsLoaded, transactions, isLoading, error, isUsingRealData,
                   isFirebaseConnected, selectedSheetIndex, loads, probe>>

\* onClick of a sheet card (App.tsx 403), of the 'all' card and of the reset
\* button (351, 362)
SelectSheet(choice) ==
    /\ IF choice = <<>> THEN TRUE ELSE choice[1] + 1 \in 1..Len(sheets)
    /\ selectedSheetIndex # choice
    /\ selectedSheetIndex' = choice
    /\ UNCHANGED <<env, now, localStore, settingsLoaded, sheets, transactions, isLoading,
                   error, isUsingRealData, isFirebaseConnected, saves, loads, probe>>

\* How the promise of saveSheetUrlsToFirebase settles when the write has
\* ended with write (firebase service 84-99): the function returns when
\* initFirebase fails or there is no database (lines 86-91) and catches a
\* rejected set() (lines 96-98), so the promise fulfils in every case.
saveSheetUrlsToFirebase(write) ==
    IF write = "unavailable" THEN "fulfilled"
    ELSE IF write = "failed" THEN "fulfilled"
    ELSE "fulfilled"

\* The remote save s settles and the callback of handleConfigChange runs
\* (App.tsx 101-105): then sets the flag, catch clears it.
SaveSettle(s, write) ==
    /\ saves[s].state = "pending"
    /\ saves' = [saves EXCEPT ![s] = [@ EXCEPT !.state = "settled", !.write = write]]
    /\ isFirebaseConnected' = (saveSheetUrlsToFirebase(write) = "fulfilled")
    /\ UNCHANGED <<env, now, localStore, settingsLoaded, sheets, transactions, isLoading,
                   error, isUsingRealData, selectedSheetIndex, loads, probe>>

ImportFiles ==
    { Stored("invalid", <<>>), Stored("other", <<>>), Stored("configs", <<SheetDated>>) }

EditValues == { <<>>, Chars("1ZJ01yx27FMzBDKdXAF3e1Gy9s6HokAC4FsO6BESzi_w") }

WriteOutcomes == {"saved", "failed", "unavailable"}

InitConfig ==
    /\ env = [legacy |-> TRUE, west |-> FALSE]
    /\ now = NowStart
    /\ localStore = Stored("configs", <<SheetMain, SheetDated>>)
    /\ AppInit
    /\ probe = NoProbe

\* The edits of the sheet list, each one handler of the panel
EditSheets ==
    \/ AddSheet
    \/ \E index \in 0..(MaxSheets - 1) : \E field \in {"url", "name"} :
          \E value \in EditValues : UpdateSheet(index, field, value)
    \/ \E index \in 0..(MaxSheets - 1) : RemoveSheet(index)
    \/ \E file \in ImportFiles : \E confirm \in BOOLEAN : ImportConfig(file, confirm)

NextConfig ==
    \/ LoadSettings(Stored("absent", <<>>))
    \/ HandleSync
    \/ \E l \in 1..Len(loads) : \E k \in 1..Len(loads[l].res) :
          FetchSettle(l, k, Answered(TRUE, SheetText))
    \/ EditSheets
    \/ \E choice \in {<<>>} \cup {<<i>> : i \in 0..(MaxSheets - 1)} : SelectSheet(choice)

SpecConfig == InitConfig /\ [][NextConfig]_vars

\* Every displayed record of real data is attributed to a configured sheet
\* with the URL it was fetched from: its sheetSourceIndex is an index of
\* sheets, and some finished loadData call fetched it from that URL.
Attributed ==
    isUsingRealData =>
        \A i \in 1..Len(transactions) :
            LET rec == transactions[i]
            IN  /\ rec.sheetSourceIndex + 1 \in 1..Len(sheets)
                /\ \E l \in 1..Len(loads) : \E k \in 1..Len(loads[l].res) :
                      /\ loads[l].done
                      /\ \E j \in 1..Len(loads[l].res[k].recs) : loads[l].res[k].recs[j] = rec
                      /\ sheets[rec.sheetSourceIndex + 1].url = loads[l].src[k].url

SelectionExists ==
    selectedSheetIndex # <<>> => selectedSheetIndex[1] + 1 \in 1..Len(sheets)

\* C25: a step that adds or removes sheets and leaves the displayed records
\* alone (no sync ended) keeps every record attributed to the sheet that
\* produced it; and after every step a selectedSheetIndex that is not null
\* is the index of an existing sheet.
C25_AttributionUnderEdits ==
    [][/\ (Attributed /\ transactions' = transactions /\ Len(sheets') # Len(sheets))
          => Attributed'
       /\ SelectionExists']_vars

(***************************************************************************)
(* The remote saves of the edits settling, in any order.                   *)
(***************************************************************************)
InitSave ==
    /\ env = [legacy |-> TRUE, west |-> FALSE]
    /\ now = NowStart
    /\ localStore \in {Stored("absent", <<>>), Stored("configs", <<SheetMain, SheetDated>>)}
    /\ AppInit
    /\ probe = NoProbe

NextSave ==
    \/ EditSheets
    \/ \E s \in 1..Len(saves) : \E write \in WriteOutcomes : SaveSettle(s, write)

SpecSave == InitSave /\ [][NextSave]_vars

\* Save s settles in this step.
Settles(s) == s <= Len(saves) /\ saves[s].state = "pending" /\ saves'[s].state = "settled"

\* C27: when the remote save of a handleConfigChange call settles, the
\* cloud flag is true if the write succeeded and false if Firebase was not
\* available or the write failed; and every handleConfigChange call writes
\* the new sheet list to the local storage.
C27_CloudFlagFollowsSave ==
    [][/\ \A s \in 1..Len(saves') :
             Settles(s) => (isFirebaseConnected' <=> saves'[s].write = "saved")
       /\ Len(saves') > Len(saves)
          => localStore' = Stored("configs", saves'[Len(saves')].data)]_vars

====
